---- MODULE Spec2Model ----
(***************************************************************************)
(* Booth access and operator session lifecycle of festival-digital.        *)
(*                                                                         *)
(* The repository holds two client modules that write the same tables:     *)
(*   booth-operations.js (src/src/js/auth-manager.js, lines 306-826):      *)
(*       startBoothOperation(boothId, info), endBoothOperation(id, token), *)
(*       getCurrentOperation(token); sessions live in operator_sessions.   *)
(*       Its operators carry the prefix Ops_.                              *)
(*   booth-code.js / operator-auth.js (src/src/js/operator-auth.js):       *)
(*       validateBoothCode, startBoothOperation(code, info),               *)
(*       endBoothOperation(id), operatorLogin, operatorLogout,             *)
(*       getOperatorSession, refreshSession; the session lives in          *)
(*       localStorage.  Its operators carry the prefix Code_ where the     *)
(*       name clashes with booth-operations.js.                            *)
(* and the SQL schema (operator-auth.js, lines 537-840) with the functions *)
(* check_ip_attempts, validate_booth_code, cleanup_expired_sessions and    *)
(* the trigger update_daily_stats_on_operation_end.                        *)
(*                                                                         *)
(* Every "await supabase..." is one atomic storage step; the synchronous   *)
(* client code that runs before the request is sent is part of that step.  *)
(* Each caller (a browser with its own localStorage) has one call in       *)
(* flight at a time; the storage steps of different callers interleave.    *)
(* Time is counted in minutes.  Timestamps travel as ISO-8601 strings with *)
(* millisecond precision, which keeps a whole minute exactly.              *)
(* The Supabase client is present (no mock mode).                          *)
(***************************************************************************)
EXTENDS Integers, Sequences, FiniteSets, TLC

VARIABLES
    now,                \* the clock, in minutes
    booths,             \* table booths: id -> row
    booth_operations,   \* table booth_operations: sequence of rows, id = index
    operator_sessions,  \* table operator_sessions: set of rows
    participants,       \* table participants: sequence of rows
    booth_daily_stats,  \* table booth_daily_stats: <<booth_id, stat_date>> -> row
    code_attempts,      \* table code_attempts: sequence of rows, id = index
    localStorage,       \* per caller: operator_session, session_token
    pc,                 \* per caller: the storage step its call waits for
    call,               \* per caller: the arguments of the call in flight
    loc,                \* per caller: the local variables of the call in flight
    ret,                \* per caller: what the last finished call returned
    closures,           \* history: per operation id, number of active -> closed transitions
    lastRefresh,        \* history: per caller, the last refreshSession that extended a session
    vret                \* what the last validation call returned

vars == <<now, booths, booth_operations, operator_sessions, participants,
          booth_daily_stats, code_attempts, localStorage, pc, call, loc, ret,
          closures, lastRefresh, vret>>

----------------------------------------------------------------------------
(* Bounds of the model *)

MaxOps == 2          \* rows of booth_operations
MaxTime == 1920      \* the clock stops here (32 hours)
MaxAttempts == 6     \* rows of code_attempts
MaxValidateTime == 60  \* the clock stops here in the validation specification
MaxParticipants == 2  \* rows of participants

(* Program constants *)

OPS_SESSION_HOURS == 8        \* booth-operations.js: expiresAt.getHours() + 8
LOGIN_SESSION_HOURS == 24     \* operatorLogin: expiresAt.getHours() + 24
REFRESH_HOURS == 24           \* refreshSession: expiresAt.getHours() + 24
DEFAULT_MAX_OPERATORS == 3    \* booth.max_operators || 3
MIN_PHONE_DIGITS == 10        \* phone.length < 10
CODE_LENGTH == 6              \* boothCode.length !== 6
MAX_IP_ATTEMPTS == 5          \* v_attempt_count >= 5
ATTEMPT_WINDOW_HOURS == 1     \* INTERVAL '1 hour'

HourMinutes == 60
DayMinutes == 24 * HourMinutes

NULL == 0 - 1                 \* SQL NULL / JavaScript null for numbers
NoCode == "NULL"              \* SQL NULL for booth_code

Procs == {1, 2}
Booths == {1, 2}

(* The steps the clock takes in the lifecycle specification. *)
TickSteps == {OPS_SESSION_HOURS * HourMinutes}

----------------------------------------------------------------------------
(* Helpers *)

Range(s) == {s[i] : i \in DOMAIN s}

RECURSIVE SeqSum(_)
SeqSum(s) == IF s = <<>> THEN 0 ELSE Head(s) + SeqSum(Tail(s))

\* DATE(ts): the day a timestamp falls on
DateOf(t) == t \div DayMinutes

\* EXTRACT(EPOCH FROM (ended_at - started_at))/3600 stored in DECIMAL(5,2):
\* hours in hundredths, rounded half up
HoursHundredths(started, ended) == ((ended - started) * 100 + 30) \div HourMinutes

\* booth.max_operators || 3
EffectiveMaxOperators(m) == IF m = NULL \/ m = 0 THEN DEFAULT_MAX_OPERATORS ELSE m

ActiveOperationIds(ops, b) ==
    {i \in DOMAIN ops : ops[i].booth_id = b /\ ops[i].is_active}


ActiveCount(ops, b) == Cardinality(ActiveOperationIds(ops, b))

\* String.prototype.trim on a name given as a tuple of characters
RECURSIVE TrimLeft(_)
TrimLeft(s) == IF s # <<>> /\ Head(s) = " " THEN TrimLeft(Tail(s)) ELSE s

RECURSIVE TrimRight(_)
TrimRight(s) ==
    IF s # <<>> /\ s[Len(s)] = " " THEN TrimRight(SubSeq(s, 1, Len(s) - 1)) ELSE s

Trim(s) == TrimRight(TrimLeft(s))

Digits == {"0", "1", "2", "3", "4", "5", "6", "7", "8", "9"}

\* phone.replace(/[^0-9]/g, '')
RECURSIVE StripNonDigits(_)
StripNonDigits(s) ==
    IF s = <<>> THEN <<>>
    ELSE IF Head(s) \in Digits THEN <<Head(s)>> \o StripNonDigits(Tail(s))
    ELSE StripNonDigits(Tail(s))

(* Inputs of the start calls: operatorInfo.name and operatorInfo.phone as   *)
(* tuples of characters; the empty tuple stands for '', null and undefined. *)
Names == {<<>>, <<" ">>, <<"K", "i", "m">>}
Phones == {<<>>,
           <<"0", "2", "-", "1", "2", "3", "-", "4", "5", "6", "7">>,
           <<"0", "1", "0", "-", "1", "2", "3", "4", "-", "5", "6", "7", "8">>}

(* Booth codes submitted by callers: the two sample codes of the schema,    *)
(* a well-formed code no booth holds, and a code of the wrong length.       *)
Codes == {"ABC123", "DEF456", "XYZ999", "AB12"}

CodeLen(c) == IF c = "AB12" THEN 4 ELSE CODE_LENGTH

----------------------------------------------------------------------------
(* Records *)

\* activeAtCall, tokenOkAtCall: history, see NoRet;
\* operatorInfo: the operatorInfo argument, where it is followed;
\* atCall: history, the tables and the caller's localStorage when the call was
\* made, where the call is followed; writeFailed: history, a storage write of
\* the call has failed
NoCall == [fn |-> "none", boothId |-> NULL, boothCode |-> NoCode,
           operationId |-> NULL, sessionToken |-> NULL, activeAtCall |-> FALSE,
           tokenOkAtCall |-> FALSE, maxAttempts |-> 0, expiryDays |-> 0,
           operatorInfo |-> <<>>, atCall |-> <<>>, writeFailed |-> FALSE]

NoLoc == [activeOperations |-> NULL, booth |-> <<>>, session |-> <<>>,
          boothId |-> NULL, participantCount |-> NULL, operationId |-> NULL,
          opActive |-> FALSE, i |-> 0, code |-> <<>>]

\* fn: the function that returned; success / error: its result;
\* operationId, boothId, sessionToken: what it returned or was called with;
\* at: the clock when it compared the session's expiry; expires_at: the expiry it
\* compared; opActive: is_active of the operation row it returned;
\* activeAtCall: the operation named by the call was active when the call was made;
\* tokenOkAtCall: the call carried no token, or the token of a stored session of
\* the operation it names;
\* code: the booth code returned (the sequence of its characters);
\* checks: the isCodeUnique calls made; fallback: the code is the fallback code;
\* duration: what calculateDuration returned, with its arguments;
\* operatorInfo: the operatorInfo the call was made with, where it is followed;
\* writeFailed: history, the storage write of the returning step has failed;
\* access: what canAccessBooth returned, with the module and the admin session
NoRet == [fn |-> "none", success |-> FALSE, error |-> "none",
          operationId |-> NULL, boothId |-> NULL, sessionToken |-> NULL,
          at |-> NULL, expires_at |-> NULL, opActive |-> FALSE,
          activeAtCall |-> FALSE, tokenOkAtCall |-> FALSE,
          code |-> <<>>, checks |-> 0, maxAttempts |-> 0, fallback |-> FALSE,
          duration |-> <<>>, operatorInfo |-> <<>>, writeFailed |-> FALSE,
          access |-> <<>>]

NoStorage == [operator_session |-> <<>>, session_token |-> NULL,
              current_operation |-> NULL]

\* rowsBefore: the length of code_attempts when the call was made;
\* lookedUp: the call selected from booths
NoVret == [fn |-> "none", code |-> NoCode, ip |-> "none", at |-> NULL,
           is_valid |-> FALSE, booth_id |-> NULL, booth_name |-> "NULL",
           reason |-> "none", rowsBefore |-> 0, lookedUp |-> FALSE]

----------------------------------------------------------------------------
(* The schema's trigger *)

\* the rows of booth_daily_stats (a set of rows with their SERIAL id) that
\* conflict with a key of UNIQUE(booth_id, stat_date)
StatRows(stats, b, d) == {r \in stats : r.booth_id = b /\ r.stat_date = d}

\* a trigger that adds an operation's count and hours at every update that
\* leaves ended_at set
update_daily_stats_on_every_end(stats, old, new) ==
    IF new.ended_at # NULL
    THEN LET b == new.booth_id
             d == DateOf(new.started_at)
             h == HoursHundredths(new.started_at, new.ended_at)
         IN  IF StatRows(stats, b, d) # {}
             THEN {IF r \in StatRows(stats, b, d)
                   THEN [r EXCEPT !.operator_count = @ + 1,
                                  !.operation_hours = @ + h]
                   ELSE r : r \in stats}
             ELSE stats \cup {[id |-> Cardinality(stats) + 1, booth_id |-> b,
                               stat_date |-> d, operator_count |-> 1,
                               operation_hours |-> h]}
    ELSE stats

\* update_daily_stats_on_operation_end, for one updated row:
\* INSERT ... ON CONFLICT (booth_id, stat_date) DO UPDATE
update_daily_stats_on_operation_end(stats, old, new) ==
    IF new.ended_at # NULL /\ old.ended_at = NULL
    THEN LET b == new.booth_id
             d == DateOf(new.started_at)
             h == HoursHundredths(new.started_at, new.ended_at)
         IN  IF StatRows(stats, b, d) # {}
             THEN {IF r \in StatRows(stats, b, d)
                   THEN [r EXCEPT !.operator_count = @ + 1,
                                  !.operation_hours = @ + h]
                   ELSE r : r \in stats}
             ELSE stats \cup {[id |-> Cardinality(stats) + 1, booth_id |-> b,
                               stat_date |-> d, operator_count |-> 1,
                               operation_hours |-> h]}
    ELSE stats

\* an update that clears is_active and leaves ended_at as it was
UpdatedOperations_activeOnly(ops, ids, fields) ==
    [i \in DOMAIN ops |->
        IF i \in ids THEN [ops[i] EXCEPT !.is_active = fields.is_active]
        ELSE ops[i]]

\* UPDATE booth_operations SET ... WHERE id IN ids: the new table
UpdatedOperations(ops, ids, fields) ==
    [i \in DOMAIN ops |->
        IF i \in ids
        THEN [ops[i] EXCEPT !.is_active = fields.is_active,
                            !.ended_at = fields.ended_at,
                            !.total_participants =
                                IF fields.total_participants = NULL THEN @
                                ELSE fields.total_participants]
        ELSE ops[i]]

\* the AFTER UPDATE ... FOR EACH ROW trigger, over the updated rows in id order
RECURSIVE StatsAfterUpdate(_, _, _, _, _)
StatsAfterUpdate(stats, old, new, ids, i) ==
    IF i > Len(old) THEN stats
    ELSE StatsAfterUpdate(
            IF i \in ids
            THEN update_daily_stats_on_operation_end(stats, old[i], new[i])
            ELSE stats,
            old, new, ids, i + 1)

\* history: active -> closed transitions counted per row
ClosuresAfter(cl, old, new) ==
    [i \in DOMAIN new |->
        IF i \in DOMAIN old
        THEN cl[i] + (IF old[i].is_active /\ ~new[i].is_active THEN 1 ELSE 0)
        ELSE 0]

----------------------------------------------------------------------------
(* Initial state: the schema's sample booths, no operation, nobody logged in *)

InitBooths ==
    (1 :> [name |-> "booth-1", booth_code |-> "ABC123",
           code_expires_at |-> 30 * DayMinutes, is_active |-> TRUE,
           max_operators |-> 1])
    @@ (2 :> [name |-> "booth-2", booth_code |-> "DEF456",
              code_expires_at |-> 30 * DayMinutes, is_active |-> TRUE,
              max_operators |-> 2])

Init ==
    /\ now = 0
    /\ booths = InitBooths
    /\ booth_operations = <<>>
    /\ operator_sessions = {}
    /\ participants = <<>>
    /\ booth_daily_stats = {}
    /\ code_attempts = <<>>
    /\ localStorage = [p \in Procs |-> NoStorage]
    /\ pc = [p \in Procs |-> "idle"]
    /\ call = [p \in Procs |-> NoCall]
    /\ loc = [p \in Procs |-> NoLoc]
    /\ ret = [p \in Procs |-> NoRet]
    /\ closures = <<>>
    /\ lastRefresh = [p \in Procs |-> <<>>]
    /\ vret = NoVret

\* time passes
Tick(d) ==
    /\ now + d <= MaxTime
    /\ now' = now + d
    /\ UNCHANGED <<booths, booth_operations, operator_sessions, participants,
                   booth_daily_stats, code_attempts, localStorage, pc, call, loc,
                   ret, closures, lastRefresh, vret>>

\* a call returns: its promise resolves with the result
Return(p, r) ==
    /\ pc' = [pc EXCEPT ![p] = "done"]
    /\ call' = [call EXCEPT ![p] = NoCall]
    /\ loc' = [loc EXCEPT ![p] = NoLoc]
    /\ ret' = [ret EXCEPT ![p] = r]

\* the caller has taken the result and is free to make its next call
Resume(p) ==
    /\ pc[p] = "done"
    /\ pc' = [pc EXCEPT ![p] = "idle"]
    /\ ret' = [ret EXCEPT ![p] = NoRet]
    /\ UNCHANGED <<now, booths, booth_operations, operator_sessions, participants,
                   booth_daily_stats, code_attempts, localStorage, call, loc,
                   closures, lastRefresh, vret>>

\* start calls in flight that have not inserted their row yet
StartsInFlight ==
    Cardinality({p \in Procs : pc[p] \in {"s_active", "s_booth", "s_insert",
                                          "l_validate", "l_close", "l_insert"}})

\* the table has room for the row of one more start call
RoomForStart == Len(booth_operations) + StartsInFlight < MaxOps

dbTables == <<booths, booth_operations, operator_sessions, participants,
              booth_daily_stats, code_attempts, closures>>

----------------------------------------------------------------------------
(* booth-operations.js: startBoothOperation(boothId, operatorInfo) *)

\* the required-field and phone checks made before any storage step
Ops_operatorInfoError(name, phone) ==
    IF name = <<>> \/ phone = <<>> THEN "name_phone_required"
    ELSE IF Len(StripNonDigits(phone)) < MIN_PHONE_DIGITS THEN "phone_invalid"
    ELSE "none"

\* booth && activeOperations && activeOperations.length >= (booth.max_operators || 3)
Ops_atCapacity(activeOperations, booth) ==
    /\ booth # <<>>
    /\ activeOperations # NULL
    /\ activeOperations >= EffectiveMaxOperators(booth[1].max_operators)

\* generateSessionToken: 64 random characters; the model names the token of the
\* session of operation i by i, so tokens are unique and each is issued once
generateSessionToken(operationId) == operationId

\* history: what a followed call keeps of the state it was made in
TablesAtCall(p, info) ==
    IF info = <<>> THEN <<>>
    ELSE <<[booth_operations |-> booth_operations,
            operator_sessions |-> operator_sessions,
            localStorage |-> localStorage[p]]>>

\* the call up to its first request; info is what call and ret keep of
\* operatorInfo: <<>>, or <<operatorInfo>> where the arguments are followed
Ops_startBoothOperation_request(p, b, name, phone, info) ==
    /\ pc[p] = "idle"
    /\ RoomForStart
    /\ IF Ops_operatorInfoError(name, phone) # "none"
       THEN Return(p, [NoRet EXCEPT !.fn = "Ops.start", !.boothId = b,
                                    !.error = Ops_operatorInfoError(name, phone),
                                    !.operatorInfo = info])
       ELSE /\ pc' = [pc EXCEPT ![p] = "s_active"]
            /\ call' = [call EXCEPT ![p] = [NoCall EXCEPT
                           !.fn = "Ops.start", !.boothId = b,
                           !.operatorInfo = info,
                           !.atCall = TablesAtCall(p, info)]]
            /\ UNCHANGED <<loc, ret>>
    /\ UNCHANGED <<now, dbTables, localStorage, lastRefresh, vret>>

Ops_startBoothOperation_call(p, b, name, phone) ==
    Ops_startBoothOperation_request(p, b, name, phone, <<>>)

\* the same call with its operatorInfo followed
Ops_startBoothOperation_callInfo(p, b, info) ==
    Ops_startBoothOperation_request(p, b, info.name, info.phone, <<info>>)

\* select id from booth_operations where booth_id = boothId and is_active
Ops_startBoothOperation_active(p) ==
    /\ pc[p] = "s_active"
    /\ loc' = [loc EXCEPT ![p].activeOperations =
                              ActiveCount(booth_operations, call[p].boothId)]
    /\ pc' = [pc EXCEPT ![p] = "s_booth"]
    /\ UNCHANGED <<now, dbTables, localStorage, call, ret, lastRefresh, vret>>

\* select max_operators from booths where id = boothId
Ops_startBoothOperation_booth(p) ==
    /\ pc[p] = "s_booth"
    /\ loc' = [loc EXCEPT ![p].booth =
                              IF call[p].boothId \in DOMAIN booths
                              THEN <<booths[call[p].boothId]>> ELSE <<>>]
    /\ pc' = [pc EXCEPT ![p] = "s_insert"]
    /\ UNCHANGED <<now, dbTables, localStorage, call, ret, lastRefresh, vret>>

\* the capacity check on what was read, then insert into booth_operations
Ops_startBoothOperation_insert(p) ==
    /\ pc[p] = "s_insert"
    /\ IF Ops_atCapacity(loc[p].activeOperations, loc[p].booth)
       THEN /\ Return(p, [NoRet EXCEPT !.fn = "Ops.start", !.error = "at_capacity",
                                       !.boothId = call[p].boothId])
            /\ UNCHANGED <<booth_operations, closures>>
       ELSE /\ booth_operations' = Append(booth_operations,
                    [booth_id |-> call[p].boothId, started_at |-> now,
                     ended_at |-> NULL, is_active |-> TRUE,
                     total_participants |-> 0])
            /\ closures' = Append(closures, 0)
            /\ loc' = [loc EXCEPT ![p].operationId = Len(booth_operations) + 1]
            /\ pc' = [pc EXCEPT ![p] = "s_session"]
            /\ UNCHANGED <<call, ret>>
    /\ UNCHANGED <<now, booths, operator_sessions, participants, booth_daily_stats,
                   code_attempts, localStorage, lastRefresh, vret>>

\* insert into operator_sessions, then localStorage and the result
Ops_startBoothOperation_session(p) ==
    /\ pc[p] = "s_session"
    /\ LET token == generateSessionToken(loc[p].operationId)
       IN  /\ operator_sessions' = operator_sessions \cup
                   {[session_token |-> token,
                     booth_operation_id |-> loc[p].operationId,
                     expires_at |-> now + OPS_SESSION_HOURS * HourMinutes,
                     last_activity |-> now]}
           /\ localStorage' = [localStorage EXCEPT
                                   ![p].session_token = token,
                                   ![p].current_operation = loc[p].operationId]
           /\ Return(p, [NoRet EXCEPT !.fn = "Ops.start", !.success = TRUE,
                                      !.boothId = call[p].boothId,
                                      !.operationId = loc[p].operationId,
                                      !.sessionToken = token])
    /\ UNCHANGED <<now, booths, booth_operations, participants, booth_daily_stats,
                   code_attempts, closures, lastRefresh, vret>>

----------------------------------------------------------------------------
(* booth-operations.js: endBoothOperation(operationId, sessionToken = null) *)

\* select ... from operator_sessions where session_token = token  (.single())
SessionsByToken(token) == {s \in operator_sessions : s.session_token = token}

\* !session || session.booth_operation_id !== operationId
Ops_sessionInvalid(rows, operationId) ==
    \/ Cardinality(rows) # 1
    \/ \E s \in rows : s.booth_operation_id # operationId

\* select id from participants where booth_id = operationId; participants.length
Ops_participantCount(operationId) ==
    Cardinality({i \in DOMAIN participants : participants[i].booth_id = operationId})

\* removeItem('current_operation'); removeItem('session_token')
Ops_clearLocal(st) == [st EXCEPT !.session_token = NULL, !.current_operation = NULL]

Ops_endBoothOperation_call(p, o, token) ==
    /\ pc[p] = "idle"
    /\ o \in DOMAIN booth_operations
    /\ pc' = [pc EXCEPT ![p] = IF token # NULL THEN "e_session" ELSE "e_participants"]
    /\ call' = [call EXCEPT ![p] = [NoCall EXCEPT
                    !.fn = "Ops.end", !.operationId = o, !.sessionToken = token,
                    !.activeAtCall = booth_operations[o].is_active,
                    !.tokenOkAtCall =
                        (token = NULL \/ \E x \in SessionsByToken(token) :
                                             x.booth_operation_id = o)]]
    /\ UNCHANGED <<now, dbTables, localStorage, loc, ret, lastRefresh, vret>>

\* the optional session check
Ops_endBoothOperation_session(p) ==
    /\ pc[p] = "e_session"
    /\ IF Ops_sessionInvalid(SessionsByToken(call[p].sessionToken), call[p].operationId)
       THEN Return(p, [NoRet EXCEPT !.fn = "Ops.end", !.error = "invalid_session",
                                    !.operationId = call[p].operationId,
                                    !.sessionToken = call[p].sessionToken,
                                    !.activeAtCall = call[p].activeAtCall,
                                    !.tokenOkAtCall = call[p].tokenOkAtCall])
       ELSE /\ pc' = [pc EXCEPT ![p] = "e_participants"]
            /\ UNCHANGED <<call, loc, ret>>
    /\ UNCHANGED <<now, dbTables, localStorage, lastRefresh, vret>>

\* the participant count
Ops_endBoothOperation_participants(p) ==
    /\ pc[p] = "e_participants"
    /\ loc' = [loc EXCEPT ![p].participantCount =
                              Ops_participantCount(call[p].operationId)]
    /\ pc' = [pc EXCEPT ![p] = "e_update"]
    /\ UNCHANGED <<now, dbTables, localStorage, call, ret, lastRefresh, vret>>

\* update booth_operations set ended_at, is_active = false, total_participants
\* where id = operationId (with the trigger); without a token the call ends here
Ops_endBoothOperation_update(p) ==
    /\ pc[p] = "e_update"
    /\ LET o == call[p].operationId
           new == UpdatedOperations(booth_operations, {o},
                      [is_active |-> FALSE, ended_at |-> now,
                       total_participants |-> loc[p].participantCount])
       IN  /\ booth_operations' = new
           /\ booth_daily_stats' =
                  StatsAfterUpdate(booth_daily_stats, booth_operations, new, {o}, 1)
           /\ closures' = ClosuresAfter(closures, booth_operations, new)
    /\ IF call[p].sessionToken # NULL
       THEN /\ pc' = [pc EXCEPT ![p] = "e_delete"]
            /\ UNCHANGED <<call, loc, ret, localStorage>>
       ELSE /\ localStorage' = [localStorage EXCEPT ![p] = Ops_clearLocal(@)]
            /\ Return(p, [NoRet EXCEPT !.fn = "Ops.end", !.success = TRUE,
                                       !.operationId = call[p].operationId,
                                       !.activeAtCall = call[p].activeAtCall,
                                       !.tokenOkAtCall = call[p].tokenOkAtCall])
    /\ UNCHANGED <<now, booths, operator_sessions, participants, code_attempts,
                   lastRefresh, vret>>

\* delete from operator_sessions where session_token = sessionToken
Ops_endBoothOperation_delete(p) ==
    /\ pc[p] = "e_delete"
    /\ operator_sessions' = operator_sessions \ SessionsByToken(call[p].sessionToken)
    /\ localStorage' = [localStorage EXCEPT ![p] = Ops_clearLocal(@)]
    /\ Return(p, [NoRet EXCEPT !.fn = "Ops.end", !.success = TRUE,
                               !.operationId = call[p].operationId,
                               !.sessionToken = call[p].sessionToken,
                               !.activeAtCall = call[p].activeAtCall,
                               !.tokenOkAtCall = call[p].tokenOkAtCall])
    /\ UNCHANGED <<now, booths, booth_operations, participants, booth_daily_stats,
                   code_attempts, closures, lastRefresh, vret>>

----------------------------------------------------------------------------
(* booth-operations.js: getCurrentOperation(sessionToken = null) *)

\* a session rejected from its expiry instant on
Ops_sessionExpired_orEqual(expires_at, t) == expires_at <= t

\* new Date(session.expires_at) < new Date()
Ops_sessionExpired(expires_at, t) == expires_at < t

\* a touch that also slides the expiry
Ops_touched_sliding(x, t) ==
    [x EXCEPT !.last_activity = t,
              !.expires_at = t + OPS_SESSION_HOURS * HourMinutes]

\* update({ last_activity: new Date().toISOString() })
Ops_touched(x, t) == [x EXCEPT !.last_activity = t]

Ops_getCurrentOperation_call(p, token) ==
    /\ pc[p] = "idle"
    /\ LET t == IF token = NULL THEN localStorage[p].session_token ELSE token
       IN  IF t = NULL
           THEN Return(p, [NoRet EXCEPT !.fn = "Ops.getCurrent", !.error = "no_session"])
           ELSE /\ pc' = [pc EXCEPT ![p] = "g_session"]
                /\ call' = [call EXCEPT ![p] = [NoCall EXCEPT !.fn = "Ops.getCurrent",
                                                              !.sessionToken = t]]
                /\ UNCHANGED <<loc, ret>>
    /\ UNCHANGED <<now, dbTables, localStorage, lastRefresh, vret>>

\* select *, booth_operations(*, booths(...)) from operator_sessions
\* where session_token = sessionToken  (.single())
Ops_getCurrentOperation_session(p) ==
    /\ pc[p] = "g_session"
    /\ LET rows == SessionsByToken(call[p].sessionToken)
       IN  IF Cardinality(rows) # 1
           THEN Return(p, [NoRet EXCEPT !.fn = "Ops.getCurrent",
                                        !.error = "invalid_session",
                                        !.sessionToken = call[p].sessionToken])
           ELSE LET s == CHOOSE r \in rows : TRUE
                IN  /\ loc' = [loc EXCEPT
                           ![p].session = <<s>>,
                           ![p].operationId = s.booth_operation_id,
                           ![p].opActive =
                               booth_operations[s.booth_operation_id].is_active]
                    /\ pc' = [pc EXCEPT ![p] = "g_touch"]
                    /\ UNCHANGED <<call, ret>>
    /\ UNCHANGED <<now, dbTables, localStorage, lastRefresh, vret>>

\* the expiry check on the row read: an expired session is deleted,
\* a live one gets last_activity = now
Ops_getCurrentOperation_touch(p) ==
    /\ pc[p] = "g_touch"
    /\ LET s == loc[p].session[1]
           r == [NoRet EXCEPT !.fn = "Ops.getCurrent",
                              !.sessionToken = call[p].sessionToken,
                              !.operationId = loc[p].operationId,
                              !.at = now, !.expires_at = s.expires_at,
                              !.opActive = loc[p].opActive]
       IN  IF Ops_sessionExpired(s.expires_at, now)
           THEN /\ operator_sessions' =
                       operator_sessions \ SessionsByToken(call[p].sessionToken)
                /\ localStorage' = [localStorage EXCEPT ![p] = Ops_clearLocal(@)]
                /\ Return(p, [r EXCEPT !.error = "expired"])
           ELSE /\ operator_sessions' =
                       {IF x.session_token = call[p].sessionToken
                        THEN Ops_touched(x, now) ELSE x
                        : x \in operator_sessions}
                /\ UNCHANGED localStorage
                /\ Return(p, [r EXCEPT !.success = TRUE])
    /\ UNCHANGED <<now, booths, booth_operations, participants, booth_daily_stats,
                   code_attempts, closures, lastRefresh, vret>>

----------------------------------------------------------------------------
(* operator-auth.js: the session in localStorage *)

\* session.expiresAt && new Date(session.expiresAt) < new Date()
sessionExpired(expiresAt, t) == expiresAt # NULL /\ expiresAt < t

\* getOperatorSession: the session it returns (<<>> for null) ...
getOperatorSession(st, t) ==
    IF st.operator_session = <<>> THEN <<>>
    ELSE IF sessionExpired(st.operator_session[1].expiresAt, t) THEN <<>>
    ELSE st.operator_session

\* clearOperatorSession
clearOperatorSession(st) == [st EXCEPT !.operator_session = <<>>]

\* an expired session left in localStorage
storageAfterGet_keep(st, t) == st

\* ... and the localStorage it leaves: an expired session is cleared
storageAfterGet(st, t) ==
    IF st.operator_session # <<>> /\ sessionExpired(st.operator_session[1].expiresAt, t)
    THEN clearOperatorSession(st)
    ELSE st

\* an expiry set to the time of the refresh
refreshedExpiry_now(t) == t

\* an extension by the lifetime of a booth-operations.js session
refreshedExpiry_opsLifetime(t) == t + OPS_SESSION_HOURS * HourMinutes

\* refreshSession: the expiry it writes
refreshedExpiry(t) == t + REFRESH_HOURS * HourMinutes

\* a call of getOperatorSession by the page
getOperatorSession_call(p) ==
    /\ pc[p] = "idle"
    /\ LET st == localStorage[p]
           s == getOperatorSession(st, now)
           r == [NoRet EXCEPT !.fn = "getOperatorSession", !.at = now]
       IN  /\ localStorage' = [localStorage EXCEPT ![p] = storageAfterGet(st, now)]
           /\ Return(p,
                 IF st.operator_session = <<>> THEN [r EXCEPT !.error = "no_session"]
                 ELSE IF s = <<>>
                 THEN [r EXCEPT !.error = "expired",
                                !.expires_at = st.operator_session[1].expiresAt]
                 ELSE [r EXCEPT !.success = TRUE,
                                !.expires_at = s[1].expiresAt,
                                !.operationId = s[1].operationId,
                                !.boothId = s[1].boothId,
                                !.opActive =
                                    booth_operations[s[1].operationId].is_active])
    /\ UNCHANGED <<now, dbTables, lastRefresh, vret>>

\* a refresh that reads the stored session itself, without the expiry check
\* of getOperatorSession
refreshSession_unchecked(p) ==
    /\ pc[p] = "idle"
    /\ LET st == localStorage[p]
           s == st.operator_session
           r == [NoRet EXCEPT !.fn = "refreshSession", !.at = now]
       IN  IF s = <<>>
           THEN /\ Return(p, [r EXCEPT !.error = "no_session"])
                /\ UNCHANGED <<localStorage, lastRefresh>>
           ELSE /\ localStorage' = [localStorage EXCEPT ![p] =
                        [st EXCEPT !.operator_session =
                            <<[s[1] EXCEPT !.expiresAt = refreshedExpiry(now)]>>]]
                /\ lastRefresh' = [lastRefresh EXCEPT ![p] =
                        <<[at |-> now, old |-> s[1].expiresAt,
                           new |-> refreshedExpiry(now)]>>]
                /\ Return(p, [r EXCEPT !.success = TRUE,
                                       !.expires_at = refreshedExpiry(now)])
    /\ UNCHANGED <<now, dbTables, vret>>

\* refreshSession()
refreshSession(p) ==
    /\ pc[p] = "idle"
    /\ LET st == storageAfterGet(localStorage[p], now)
           s == getOperatorSession(localStorage[p], now)
           r == [NoRet EXCEPT !.fn = "refreshSession", !.at = now]
       IN  IF s = <<>>
           THEN /\ localStorage' = [localStorage EXCEPT ![p] = st]
                /\ Return(p, [r EXCEPT !.error = "no_session"])
                /\ UNCHANGED lastRefresh
           ELSE /\ localStorage' = [localStorage EXCEPT ![p] =
                        [st EXCEPT !.operator_session =
                            <<[s[1] EXCEPT !.expiresAt = refreshedExpiry(now)]>>]]
                /\ lastRefresh' = [lastRefresh EXCEPT ![p] =
                        <<[at |-> now, old |-> s[1].expiresAt,
                           new |-> refreshedExpiry(now)]>>]
                /\ Return(p, [r EXCEPT !.success = TRUE,
                                       !.expires_at = refreshedExpiry(now)])
    /\ UNCHANGED <<now, dbTables, vret>>

----------------------------------------------------------------------------
(* booth-code.js: validateBoothCode(code) *)

\* a validation without the expiry check
validateBoothCode_noExpiry(code, t) ==
    LET rows == {b \in DOMAIN booths : booths[b].booth_code = code}
    IN  IF code = NoCode \/ Cardinality(rows) # 1
        THEN [isValid |-> FALSE, boothId |-> NULL, boothName |-> "NULL",
              reason |-> "not_found"]
        ELSE LET b == CHOOSE x \in rows : TRUE
             IN  IF ~booths[b].is_active
                 THEN [isValid |-> FALSE, boothId |-> NULL, boothName |-> "NULL",
                       reason |-> "inactive"]
                 ELSE [isValid |-> TRUE, boothId |-> b,
                       boothName |-> booths[b].name, reason |-> "none"]

\* select id, name, code_expires_at, is_active from booths
\* where booth_code = code  (.single()), then the expiry and active checks
validateBoothCode(code, t) ==
    LET rows == {b \in DOMAIN booths : booths[b].booth_code = code}
    IN  IF code = NoCode \/ Cardinality(rows) # 1
        THEN [isValid |-> FALSE, boothId |-> NULL, boothName |-> "NULL",
              reason |-> "not_found"]
        ELSE LET b == CHOOSE x \in rows : TRUE
             IN  IF booths[b].code_expires_at # NULL /\ booths[b].code_expires_at < t
                 THEN [isValid |-> FALSE, boothId |-> NULL, boothName |-> "NULL",
                       reason |-> "expired"]
                 ELSE IF ~booths[b].is_active
                 THEN [isValid |-> FALSE, boothId |-> NULL, boothName |-> "NULL",
                       reason |-> "inactive"]
                 ELSE [isValid |-> TRUE, boothId |-> b,
                       boothName |-> booths[b].name, reason |-> "none"]

----------------------------------------------------------------------------
(* operator-auth.js: operatorLogin(boothCode, operatorInfo), which runs      *)
(* booth-code.js: startBoothOperation(boothCode, operatorInfo)               *)

\* the input checks of operatorLogin
operatorLoginError(code, name) ==
    IF code = NoCode \/ CodeLen(code) # CODE_LENGTH THEN "bad_code"
    ELSE IF name = <<>> \/ Trim(name) = <<>> THEN "name_required"
    ELSE "none"

\* the session operatorLogin saves
loginSession(operationId, boothId, t) ==
    [operationId |-> operationId, boothId |-> boothId, role |-> "operator",
     startedAt |-> t, expiresAt |-> t + LOGIN_SESSION_HOURS * HourMinutes]

\* the call up to its first request; operatorInfo.phone is passed on
\* unchecked; info is what call and ret keep of operatorInfo
operatorLogin_request(p, code, name, info) ==
    /\ pc[p] = "idle"
    /\ RoomForStart
    /\ IF operatorLoginError(code, name) # "none"
       THEN Return(p, [NoRet EXCEPT !.fn = "operatorLogin",
                                    !.error = operatorLoginError(code, name),
                                    !.operatorInfo = info])
       ELSE /\ pc' = [pc EXCEPT ![p] = "l_validate"]
            /\ call' = [call EXCEPT ![p] = [NoCall EXCEPT
                           !.fn = "operatorLogin", !.boothCode = code,
                           !.operatorInfo = info,
                           !.atCall = TablesAtCall(p, info)]]
            /\ UNCHANGED <<loc, ret>>
    /\ UNCHANGED <<now, dbTables, localStorage, lastRefresh, vret>>

operatorLogin_call(p, code, name) == operatorLogin_request(p, code, name, <<>>)

\* the same call with its operatorInfo followed
operatorLogin_callInfo(p, code, info) ==
    operatorLogin_request(p, code, info.name, <<info>>)

\* 1. validateBoothCode
Code_startBoothOperation_validate(p) ==
    /\ pc[p] = "l_validate"
    /\ LET v == validateBoothCode(call[p].boothCode, now)
       IN  IF ~v.isValid
           THEN Return(p, [NoRet EXCEPT !.fn = "operatorLogin", !.error = v.reason])
           ELSE /\ loc' = [loc EXCEPT ![p].boothId = v.boothId]
                /\ pc' = [pc EXCEPT ![p] = "l_close"]
                /\ UNCHANGED <<call, ret>>
    /\ UNCHANGED <<now, dbTables, localStorage, lastRefresh, vret>>

\* 2. update booth_operations set is_active = false, ended_at = now
\*    where booth_id = boothId and is_active  (with the trigger)
Code_closeActiveOperations(ops, b) == ActiveOperationIds(ops, b)

Code_startBoothOperation_close(p) ==
    /\ pc[p] = "l_close"
    /\ LET ids == Code_closeActiveOperations(booth_operations, loc[p].boothId)
           new == UpdatedOperations(booth_operations, ids,
                      [is_active |-> FALSE, ended_at |-> now,
                       total_participants |-> NULL])
       IN  /\ booth_operations' = new
           /\ booth_daily_stats' =
                  StatsAfterUpdate(booth_daily_stats, booth_operations, new, ids, 1)
           /\ closures' = ClosuresAfter(closures, booth_operations, new)
    /\ pc' = [pc EXCEPT ![p] = "l_insert"]
    /\ UNCHANGED <<now, booths, operator_sessions, participants, code_attempts,
                   localStorage, call, loc, ret, lastRefresh, vret>>

\* a start that reopens the booth's last closed row instead of inserting
Code_startBoothOperation_insert_reopening(p) ==
    /\ pc[p] = "l_insert"
    /\ LET closed == {o \in DOMAIN booth_operations :
                         /\ booth_operations[o].booth_id = loc[p].boothId
                         /\ ~booth_operations[o].is_active}
           o == IF closed = {} THEN Len(booth_operations) + 1
                ELSE CHOOSE x \in closed : \A y \in closed : y <= x
           row == [booth_id |-> loc[p].boothId, started_at |-> now,
                   ended_at |-> NULL, is_active |-> TRUE,
                   total_participants |-> 0]
       IN  /\ IF closed = {}
              THEN /\ booth_operations' = Append(booth_operations, row)
                   /\ closures' = Append(closures, 0)
              ELSE /\ booth_operations' = [booth_operations EXCEPT ![o] = row]
                   /\ UNCHANGED closures
           /\ localStorage' = [localStorage EXCEPT ![p].operator_session =
                   <<loginSession(o, loc[p].boothId, now)>>]
           /\ Return(p, [NoRet EXCEPT !.fn = "operatorLogin", !.success = TRUE,
                                      !.operationId = o,
                                      !.boothId = loc[p].boothId,
                                      !.expires_at =
                                          now + LOGIN_SESSION_HOURS * HourMinutes])
    /\ UNCHANGED <<now, booths, operator_sessions, participants, booth_daily_stats,
                   code_attempts, lastRefresh, vret>>

\* 3. insert into booth_operations; operatorLogin then saves its session
Code_startBoothOperation_insert(p) ==
    /\ pc[p] = "l_insert"
    /\ booth_operations' = Append(booth_operations,
            [booth_id |-> loc[p].boothId, started_at |-> now, ended_at |-> NULL,
             is_active |-> TRUE, total_participants |-> 0])
    /\ closures' = Append(closures, 0)
    /\ localStorage' = [localStorage EXCEPT ![p].operator_session =
            <<loginSession(Len(booth_operations) + 1, loc[p].boothId, now)>>]
    /\ Return(p, [NoRet EXCEPT !.fn = "operatorLogin", !.success = TRUE,
                               !.operationId = Len(booth_operations) + 1,
                               !.boothId = loc[p].boothId,
                               !.expires_at = now + LOGIN_SESSION_HOURS * HourMinutes])
    /\ UNCHANGED <<now, booths, operator_sessions, participants, booth_daily_stats,
                   code_attempts, lastRefresh, vret>>

----------------------------------------------------------------------------
(* booth-code.js: endBoothOperation(operationId), called directly or by      *)
(* operator-auth.js: operatorLogout()                                        *)

Code_endBoothOperation_call(p, o) ==
    /\ pc[p] = "idle"
    /\ o \in DOMAIN booth_operations
    /\ pc' = [pc EXCEPT ![p] = "c_end"]
    /\ call' = [call EXCEPT ![p] = [NoCall EXCEPT
                    !.fn = "Code.end", !.operationId = o,
                    !.activeAtCall = booth_operations[o].is_active,
                    !.tokenOkAtCall = TRUE]]
    /\ UNCHANGED <<now, dbTables, localStorage, loc, ret, lastRefresh, vret>>

operatorLogout_call(p) ==
    /\ pc[p] = "idle"
    /\ LET s == getOperatorSession(localStorage[p], now)
       IN  IF s # <<>> /\ s[1].operationId # NULL
           THEN /\ localStorage' =
                       [localStorage EXCEPT ![p] = storageAfterGet(@, now)]
                /\ pc' = [pc EXCEPT ![p] = "c_end"]
                /\ call' = [call EXCEPT ![p] = [NoCall EXCEPT
                       !.fn = "operatorLogout", !.operationId = s[1].operationId,
                       !.activeAtCall =
                           booth_operations[s[1].operationId].is_active,
                       !.tokenOkAtCall = TRUE]]
                /\ UNCHANGED <<loc, ret>>
           ELSE /\ localStorage' = [localStorage EXCEPT ![p] =
                       clearOperatorSession(storageAfterGet(@, now))]
                /\ Return(p, [NoRet EXCEPT !.fn = "operatorLogout", !.success = TRUE])
    /\ UNCHANGED <<now, dbTables, lastRefresh, vret>>

\* update booth_operations set is_active = false, ended_at = now where id = operationId
\* (with the trigger); operatorLogout then clears its session
Code_endBoothOperation_update(p) ==
    /\ pc[p] = "c_end"
    /\ LET o == call[p].operationId
           new == UpdatedOperations(booth_operations, {o},
                      [is_active |-> FALSE, ended_at |-> now,
                       total_participants |-> NULL])
       IN  /\ booth_operations' = new
           /\ booth_daily_stats' =
                  StatsAfterUpdate(booth_daily_stats, booth_operations, new, {o}, 1)
           /\ closures' = ClosuresAfter(closures, booth_operations, new)
    /\ localStorage' = [localStorage EXCEPT ![p] =
            IF call[p].fn = "operatorLogout" THEN clearOperatorSession(@) ELSE @]
    /\ Return(p, [NoRet EXCEPT !.fn = call[p].fn, !.success = TRUE,
                               !.operationId = call[p].operationId,
                               !.activeAtCall = call[p].activeAtCall,
                               !.tokenOkAtCall = call[p].tokenOkAtCall])
    /\ UNCHANGED <<now, booths, operator_sessions, participants, code_attempts,
                   lastRefresh, vret>>

----------------------------------------------------------------------------
(* booth-code.js: validateBoothCode(code), called on its own by a client at  *)
(* an address                                                                *)

Addresses == {"10.0.0.1", "10.0.0.2"}

validateBoothCode_call(code, ip) ==
    /\ vret.fn = "none"
    /\ LET v == validateBoothCode(code, now)
       IN  vret' = [NoVret EXCEPT !.fn = "validateBoothCode", !.code = code,
                                  !.ip = ip, !.at = now,
                                  !.is_valid = v.isValid, !.booth_id = v.boothId,
                                  !.booth_name = v.boothName, !.reason = v.reason,
                                  !.rowsBefore = Len(code_attempts),
                                  !.lookedUp = TRUE]
    /\ UNCHANGED <<now, dbTables, localStorage, pc, call, loc, ret, lastRefresh>>

\* the caller takes the result
validate_return ==
    /\ vret.fn # "none"
    /\ vret' = NoVret
    /\ UNCHANGED <<now, dbTables, localStorage, pc, call, loc, ret, lastRefresh>>

----------------------------------------------------------------------------
(* SQL schema: check_ip_attempts(check_ip), validate_booth_code(code, ip)    *)
(* The messages are named by their meaning:                                  *)
(*   "rate_limited" for the row's text of line 715, "not_found" for line     *)
(*   730, "expired" for line 740, "inactive" for line 750, "none" for the    *)
(*   NULL error_message of a success row.                                    *)

\* the failed attempts of an address whatever their outcome
check_ip_attempts_anyOutcome(check_ip, t) ==
    Cardinality({i \in DOMAIN code_attempts :
                     /\ code_attempts[i].ip_address = check_ip
                     /\ code_attempts[i].attempted_at >
                            t - ATTEMPT_WINDOW_HOURS * HourMinutes})

\* a count of the failed attempts of an address whatever their age
check_ip_attempts_noWindow(check_ip, t) ==
    Cardinality({i \in DOMAIN code_attempts :
                     /\ code_attempts[i].ip_address = check_ip
                     /\ code_attempts[i].success = FALSE})

\* a count of the failed attempts of every address
check_ip_attempts_anyAddress(check_ip, t) ==
    Cardinality({i \in DOMAIN code_attempts :
                     /\ code_attempts[i].attempted_at >
                            t - ATTEMPT_WINDOW_HOURS * HourMinutes
                     /\ code_attempts[i].success = FALSE})

\* SELECT COUNT(*) FROM code_attempts WHERE ip_address = check_ip
\*   AND attempted_at > NOW() - INTERVAL '1 hour' AND success = false
check_ip_attempts(check_ip, t) ==
    Cardinality({i \in DOMAIN code_attempts :
                     /\ code_attempts[i].ip_address = check_ip
                     /\ code_attempts[i].attempted_at >
                            t - ATTEMPT_WINDOW_HOURS * HourMinutes
                     /\ code_attempts[i].success = FALSE})

\* a row of code_attempts; attempted_at defaults to NOW()
CodeAttempt(code, ip, success, booth_id, error_message, t) ==
    [attempted_code |-> code, ip_address |-> ip, success |-> success,
     booth_id |-> booth_id, error_message |-> error_message, attempted_at |-> t]

\* the body of validate_booth_code: the row it inserts and the row it returns
validate_booth_code_body(input_code, input_ip, t) ==
    LET v_attempt_count == check_ip_attempts(input_ip, t)
        found == {b \in DOMAIN booths : booths[b].booth_code = input_code}
        result(valid, id, name, message, lookedUp) ==
            [is_valid |-> valid, booth_id |-> IF valid THEN id ELSE NULL,
             booth_name |-> IF valid THEN name ELSE "NULL",
             message |-> message, lookedUp |-> lookedUp,
             row |-> CodeAttempt(input_code, input_ip, valid, id, message, t)]
    IN  IF v_attempt_count >= MAX_IP_ATTEMPTS
        THEN result(FALSE, NULL, "NULL", "rate_limited", FALSE)
        ELSE IF found = {}
        THEN result(FALSE, NULL, "NULL", "not_found", TRUE)
        ELSE LET v_booth_id == CHOOSE b \in found : TRUE
                 v_expires_at == booths[v_booth_id].code_expires_at
                 v_is_active == booths[v_booth_id].is_active
                 v_booth_name == booths[v_booth_id].name
             IN  IF v_expires_at # NULL /\ v_expires_at < t
                 THEN result(FALSE, v_booth_id, v_booth_name, "expired", TRUE)
                 ELSE IF ~v_is_active
                 THEN result(FALSE, v_booth_id, v_booth_name, "inactive", TRUE)
                 ELSE result(TRUE, v_booth_id, v_booth_name, "none", TRUE)

validate_booth_code(input_code, input_ip) ==
    /\ vret.fn = "none"
    /\ Len(code_attempts) < MaxAttempts
    /\ LET r == validate_booth_code_body(input_code, input_ip, now)
       IN  /\ code_attempts' = Append(code_attempts, r.row)
           /\ vret' = [NoVret EXCEPT !.fn = "validate_booth_code",
                                     !.code = input_code, !.ip = input_ip,
                                     !.at = now, !.is_valid = r.is_valid,
                                     !.booth_id = r.booth_id,
                                     !.booth_name = r.booth_name,
                                     !.reason = r.message,
                                     !.rowsBefore = Len(code_attempts),
                                     !.lookedUp = r.lookedUp]
    /\ UNCHANGED <<now, booths, booth_operations, operator_sessions, participants,
                   booth_daily_stats, closures, localStorage, pc, call, loc, ret,
                   lastRefresh>>

----------------------------------------------------------------------------
(* The specifications *)

IssuedTokens == {NULL} \cup DOMAIN booth_operations

\* the clock moves by one of the steps, up to a limit
TickTo(steps, limit) == \E d \in steps : now + d <= limit /\ Tick(d)

\* booth-operations.js: starting an operation with its session
OpsStartNext(P, B) ==
    \/ \E p \in P, b \in B, n \in Names, ph \in Phones :
           Ops_startBoothOperation_call(p, b, n, ph)
    \/ \E p \in P : Ops_startBoothOperation_active(p)
    \/ \E p \in P : Ops_startBoothOperation_booth(p)
    \/ \E p \in P : Ops_startBoothOperation_insert(p)
    \/ \E p \in P : Ops_startBoothOperation_session(p)

\* booth-operations.js: ending an operation
OpsEndNext(P) ==
    \/ \E p \in P, o \in DOMAIN booth_operations, t \in IssuedTokens :
           Ops_endBoothOperation_call(p, o, t)
    \/ \E p \in P : Ops_endBoothOperation_session(p)
    \/ \E p \in P : Ops_endBoothOperation_participants(p)
    \/ \E p \in P : Ops_endBoothOperation_update(p)
    \/ \E p \in P : Ops_endBoothOperation_delete(p)

\* booth-operations.js: resolving a session token
OpsResolveNext(P) ==
    \/ \E p \in P, t \in IssuedTokens : Ops_getCurrentOperation_call(p, t)
    \/ \E p \in P : Ops_getCurrentOperation_session(p)
    \/ \E p \in P : Ops_getCurrentOperation_touch(p)

\* operator-auth.js: logging in with a booth code
LoginNext(P) ==
    \/ \E p \in P, c \in Codes, n \in Names : operatorLogin_call(p, c, n)
    \/ \E p \in P : Code_startBoothOperation_validate(p)
    \/ \E p \in P : Code_startBoothOperation_close(p)
    \/ \E p \in P : Code_startBoothOperation_insert(p)

\* operator-auth.js / booth-code.js: logging out, ending an operation
LogoutNext(P) ==
    \/ \E p \in P, o \in DOMAIN booth_operations : Code_endBoothOperation_call(p, o)
    \/ \E p \in P : operatorLogout_call(p)
    \/ \E p \in P : Code_endBoothOperation_update(p)

\* operator-auth.js: reading and refreshing the local session
LocalSessionNext(P) ==
    \/ \E p \in P : getOperatorSession_call(p)
    \/ \E p \in P : refreshSession(p)

(* The lifecycle: two callers run every operation of both client modules    *)
(* against the two booths, their storage steps interleaving at one instant. *)
Next ==
    \/ OpsStartNext(Procs, Booths)
    \/ OpsEndNext(Procs)
    \/ OpsResolveNext(Procs)
    \/ LoginNext(Procs)
    \/ LogoutNext(Procs)
    \/ LocalSessionNext(Procs)
    \/ \E p \in Procs : Resume(p)

Spec == Init /\ [][Next]_vars

(* Sessions over time: one caller starts operations, logs in, resolves and  *)
(* refreshes sessions while the clock runs past the sessions' lifetimes.    *)
NextSession ==
    \/ TickTo(TickSteps, MaxTime)
    \/ OpsStartNext({1}, Booths)
    \/ OpsResolveNext({1})
    \/ LoginNext({1})
    \/ LocalSessionNext({1})
    \/ Resume(1)

SpecSession == Init /\ [][NextSession]_vars

(* Validation: clients at two addresses validate booth codes through the    *)
(* database function and through the client function while the clock runs   *)
(* past the attempt window and past a code's expiry.                        *)

\* booth 1's code expires half an hour in; booth 2 is switched off and its
\* code expires an hour in
ValidateBooths ==
    [InitBooths EXCEPT ![1].code_expires_at = HourMinutes \div 2,
                       ![2].is_active = FALSE,
                       ![2].code_expires_at = HourMinutes]

InitValidate ==
    /\ now = 0
    /\ booths = ValidateBooths
    /\ booth_operations = <<>>
    /\ operator_sessions = {}
    /\ participants = <<>>
    /\ booth_daily_stats = {}
    /\ code_attempts = <<>>
    /\ localStorage = [p \in Procs |-> NoStorage]
    /\ pc = [p \in Procs |-> "idle"]
    /\ call = [p \in Procs |-> NoCall]
    /\ loc = [p \in Procs |-> NoLoc]
    /\ ret = [p \in Procs |-> NoRet]
    /\ closures = <<>>
    /\ lastRefresh = [p \in Procs |-> <<>>]
    /\ vret = NoVret

AttemptTickSteps == {HourMinutes \div 2}

Client == "10.0.0.1"

\* the clock moves between calls
AttemptTick == vret.fn = "none" /\ TickTo(AttemptTickSteps, MaxValidateTime)

NextValidate ==
    \/ AttemptTick
    \/ \E c \in {"ABC123", "DEF456", "XYZ999"} :
           validate_booth_code(c, Client)
    \/ \E c \in {"ABC123", "DEF456", "XYZ999"} :
           validateBoothCode_call(c, Client)
    \/ validate_return

SpecValidate == InitValidate /\ [][NextValidate]_vars

(* The rate limiter: failed and successful attempts of two addresses         *)
NextRateLimit ==
    \/ AttemptTick
    \/ \E c \in {"ABC123", "XYZ999"}, a \in Addresses : validate_booth_code(c, a)
    \/ validate_return

SpecRateLimit == InitValidate /\ [][NextRateLimit]_vars

----------------------------------------------------------------------------
(* Properties of the lifecycle (Spec) *)

\* C1: for every booth, in every reachable state, the number of active
\* operations of the booth is at most the booth's max_operators, also when
\* start requests interleave their reads and their insert.
C1_ActiveWithinMaxOperators ==
    \A b \in DOMAIN booths :
        ActiveCount(booth_operations, b) <= booths[b].max_operators

EndFns == {"Ops.end", "Code.end", "operatorLogout"}

\* C2: when two End requests for the same operation, both made while it was
\* active and both entitled to end it, have run in any interleaving, the
\* operation went from active to closed exactly once and both callers got a
\* success response.
C2_ConcurrentEndsBothSucceed ==
    \A p, q \in Procs :
        (/\ p # q
         /\ pc[p] = "done" /\ pc[q] = "done"
         /\ ret[p].fn \in EndFns /\ ret[q].fn \in EndFns
         /\ ret[p].operationId = ret[q].operationId
         /\ ret[p].activeAtCall /\ ret[q].activeAtCall
         /\ ret[p].tokenOkAtCall /\ ret[q].tokenOkAtCall)
        => /\ ret[p].success /\ ret[q].success
           /\ closures[ret[p].operationId] = 1

ResolveFns == {"Ops.getCurrent", "getOperatorSession"}

\* C3: resolving a session (getCurrentOperation, getOperatorSession) never
\* succeeds while the operation the session is bound to is closed.
C3_ClosedOperationNeverResolves ==
    \A p \in Procs :
        (pc[p] = "done" /\ ret[p].fn \in ResolveFns /\ ret[p].success)
        => ret[p].opActive

\* an End step of caller p on operation o
EndStep(p, o) ==
    /\ pc[p] \in {"e_update", "c_end"}
    /\ call[p].operationId = o
    /\ pc'[p] = "done"

\* C10: for a booth with max_operators = 1: while an operation of the booth
\* is active no other start is admitted (no operation row of the booth is
\* added) and the operation stays active until an End request for it closes
\* it; a start made when the booth has no active operation is admitted.
C10_SingleOperatorScenario ==
    [][\A b \in DOMAIN booths :
          booths[b].max_operators = 1 =>
              /\ (/\ Len(booth_operations') > Len(booth_operations)
                  /\ booth_operations'[Len(booth_operations')].booth_id = b)
                 => ActiveOperationIds(booth_operations, b) = {}
              /\ \A o \in ActiveOperationIds(booth_operations, b) :
                     ~booth_operations'[o].is_active
                     => \E p \in Procs : EndStep(p, o)]_vars

----------------------------------------------------------------------------
(* Properties of sessions over time (SpecSession) *)

\* C4: a resolve that finds a stored session fails as expired exactly when
\* its time is strictly after the session's expiry, and succeeds at the
\* expiry instant and before it.
C4_ExpiredIffAfterExpiry ==
    \A p \in Procs :
        (pc[p] = "done" /\ ret[p].fn \in ResolveFns /\ ret[p].expires_at # NULL)
        => /\ (ret[p].error = "expired") <=> (ret[p].at > ret[p].expires_at)
           /\ ret[p].success <=> (ret[p].at <= ret[p].expires_at)

\* a session of booth-operations.js resolved at its expiry instant
C4_AcceptedAtExpiry ==
    \E p \in Procs :
        /\ pc[p] = "done" /\ ret[p].fn = "Ops.getCurrent"
        /\ ret[p].success /\ ret[p].at = ret[p].expires_at

\* C5: a refresh made strictly before the session's expiry sets the expiry
\* to the time of the refresh plus 24 hours, and a resolve of the refreshed
\* session after the old expiry and before the new one succeeds.
C5_RefreshExtendsByDay ==
    \A p \in Procs :
        lastRefresh[p] # <<>> /\ lastRefresh[p][1].at < lastRefresh[p][1].old
        => /\ lastRefresh[p][1].new = lastRefresh[p][1].at + 24 * 60
           /\ (/\ pc[p] = "done" /\ ret[p].fn = "getOperatorSession"
               /\ ret[p].expires_at = lastRefresh[p][1].new
               /\ lastRefresh[p][1].old < ret[p].at
               /\ ret[p].at < lastRefresh[p][1].new)
              => ret[p].success

\* a refreshed session resolved between its old and its new expiry
C5_ResolvedAfterOldExpiry ==
    \E p \in Procs :
        /\ lastRefresh[p] # <<>>
        /\ lastRefresh[p][1].at < lastRefresh[p][1].old
        /\ pc[p] = "done" /\ ret[p].fn = "getOperatorSession" /\ ret[p].success
        /\ ret[p].expires_at = lastRefresh[p][1].new
        /\ lastRefresh[p][1].old < ret[p].at
        /\ ret[p].at < lastRefresh[p][1].new

----------------------------------------------------------------------------
(* Properties of validation (SpecValidate, SpecRateLimit) *)

\* the attempts among the first n rows that an address failed less than 60
\* minutes before time t
FailedWithinWindow(ip, t, n) ==
    Cardinality({i \in 1..n : /\ code_attempts[i].ip_address = ip
                              /\ ~code_attempts[i].success
                              /\ t - code_attempts[i].attempted_at < 60})

\* C6: after 5 failed attempts of an address within 60 minutes, the next
\* validation from that address is rejected as rate-limited whatever its
\* code, does not select from booths, and is recorded in code_attempts.
C6_SixthAttemptRateLimited ==
    (vret.fn # "none"
     /\ FailedWithinWindow(vret.ip, vret.at, vret.rowsBefore) >= 5)
    => /\ ~vret.is_valid /\ vret.reason = "rate_limited"
       /\ ~vret.lookedUp
       /\ Len(code_attempts) = vret.rowsBefore + 1
       /\ code_attempts[Len(code_attempts)].ip_address = vret.ip
       /\ code_attempts[Len(code_attempts)].attempted_code = vret.code

\* C7: an address is blocked at time t exactly when at least 5 rows of
\* code_attempts have that address, success = false and a time within the
\* 60 minutes before t; successes and older rows are not counted.
C7_BlockedIffFiveRecentFailures ==
    /\ \A a \in Addresses :
           (check_ip_attempts(a, now) >= MAX_IP_ATTEMPTS)
           <=> (FailedWithinWindow(a, now, Len(code_attempts)) >= 5)
    /\ vret.fn = "validate_booth_code"
       => ((vret.reason = "rate_limited")
           <=> (FailedWithinWindow(vret.ip, vret.at, vret.rowsBefore) >= 5))

\* a call blocked for an address after its five failures
C7_BlockedCall ==
    /\ vret.fn = "validate_booth_code"
    /\ vret.reason = "rate_limited"
    /\ check_ip_attempts(vret.ip, vret.at) > MAX_IP_ATTEMPTS

\* C8: every validation call appends exactly one row to code_attempts, and
\* the row's success flag and failure reason are those of the returned
\* result.
C8_OneAttemptRowPerCall ==
    vret.fn # "none"
    => /\ Len(code_attempts) = vret.rowsBefore + 1
       /\ code_attempts[Len(code_attempts)].attempted_code = vret.code
       /\ code_attempts[Len(code_attempts)].ip_address = vret.ip
       /\ code_attempts[Len(code_attempts)].success = vret.is_valid
       /\ code_attempts[Len(code_attempts)].error_message = vret.reason

\* the failure of the first failing check in the order rate limit, code
\* existence, code expiry, booth active flag ("none" when all four pass)
FirstFailingCheck(code, ip, t, n) ==
    LET holders == {b \in DOMAIN booths : booths[b].booth_code = code}
    IN  IF FailedWithinWindow(ip, t, n) >= 5 THEN "rate_limited"
        ELSE IF holders = {} THEN "not_found"
        ELSE IF \E b \in holders : /\ booths[b].code_expires_at # NULL
                                   /\ booths[b].code_expires_at < t
             THEN "expired"
        ELSE IF \E b \in holders : ~booths[b].is_active THEN "inactive"
        ELSE "none"

\* C9: validation reports the failure of the first failing check in the
\* order rate limit, existence, expiry, active flag, and returns is_valid
\* with the matching booth's id and name only when all four checks pass.
C9_ChecksInFixedOrder ==
    vret.fn # "none"
    => /\ vret.reason = FirstFailingCheck(vret.code, vret.ip, vret.at,
                                          vret.rowsBefore)
       /\ vret.is_valid <=> (vret.reason = "none")
       /\ vret.is_valid
          => /\ vret.booth_id \in DOMAIN booths
             /\ booths[vret.booth_id].booth_code = vret.code
             /\ booths[vret.booth_id].name = vret.booth_name

----------------------------------------------------------------------------
(* Closing operations over time: one caller starts, logs in, ends and logs  *)
(* out while the clock runs into the next day.                              *)
CloseTickSteps == {DayMinutes}

NextClose ==
    \/ TickTo(CloseTickSteps, MaxTime)
    \/ OpsStartNext({1}, Booths)
    \/ OpsEndNext({1})
    \/ LoginNext({1})
    \/ LogoutNext({1})
    \/ Resume(1)

SpecClose == Init /\ [][NextClose]_vars

----------------------------------------------------------------------------
(* Properties of starting and ending operations (Spec, SpecClose) *)

StartPcs == {"s_active", "s_booth", "s_insert", "s_session",
             "l_validate", "l_close", "l_insert"}

\* C11: no step of a start request changes an operation row that exists
\* already: operations of the booth that were active before the start are
\* still active with ended_at null after it.
C11_StartLeavesOthersUnchanged ==
    [][\A p \in Procs :
          (pc[p] \in StartPcs /\ pc'[p] # pc[p])
          => \A o \in DOMAIN booth_operations :
                 booth_operations'[o] = booth_operations[o]]_vars

EndPcs == {"e_session", "e_participants", "e_update", "e_delete", "c_end"}

\* C12: End on an operation that is already closed leaves the row (ended_at,
\* is_active, total_participants) as the first close set it, and an End
\* request made for a closed operation, with no token or with the token of
\* a stored session of that operation, returns success.
C12_EndIdempotent ==
    [][\A p \in Procs :
          /\ (/\ pc[p] \in {"e_update", "c_end"} /\ pc'[p] # pc[p]
              /\ ~booth_operations[call[p].operationId].is_active)
             => booth_operations' = booth_operations
          /\ (/\ pc[p] \in EndPcs /\ pc'[p] = "done"
              /\ ~call[p].activeAtCall
              /\ call[p].tokenOkAtCall)
             => ret'[p].success]_vars

\* C13: in every state every operation row has is_active = true exactly
\* when its ended_at is null.
C13_ActiveIffNotEnded ==
    \A o \in DOMAIN booth_operations :
        booth_operations[o].is_active <=> (booth_operations[o].ended_at = NULL)

\* an operation closed and a later operation of the same booth active
C13_ClosedAndActive ==
    \E o1, o2 \in DOMAIN booth_operations :
        /\ o1 < o2
        /\ booth_operations[o1].booth_id = booth_operations[o2].booth_id
        /\ ~booth_operations[o1].is_active /\ closures[o1] = 1
        /\ booth_operations[o2].is_active

\* the count and the hours booth_daily_stats holds for a booth and a date
\* the operations of a booth and a start date that a step closes
ClosedByStep(b, d) ==
    {o \in DOMAIN booth_operations :
        /\ booth_operations[o].booth_id = b
        /\ DateOf(booth_operations[o].started_at) = d
        /\ booth_operations[o].is_active
        /\ ~booth_operations'[o].is_active}

\* C19: booth_daily_stats holds at most one row per (booth_id, stat_date),
\* and every step adds to that row's operator_count the number of the
\* booth's operations of that date it closes and to operation_hours their
\* durations: once per operation, whatever the number of End calls, and no
\* counter decreases or is overwritten.  (A step that changes neither table
\* closes nothing and leaves every row as it was.)
C19_DailyStatsAdditive ==
    [][(booth_daily_stats' # booth_daily_stats
        \/ booth_operations' # booth_operations)
       =>
       \A b \in DOMAIN booths, d \in 0..DateOf(MaxTime) :
          LET closed == ClosedByStep(b, d)
              before == StatRows(booth_daily_stats, b, d)
              after  == StatRows(booth_daily_stats', b, d)
              count(rows) == IF rows = {} THEN 0
                             ELSE (CHOOSE r \in rows : TRUE).operator_count
              hours(rows) == IF rows = {} THEN 0
                             ELSE (CHOOSE r \in rows : TRUE).operation_hours
          IN  /\ Cardinality(after) <= 1
              /\ count(after) = count(before) + Cardinality(closed)
              /\ hours(after) =
                     hours(before)
                     + SeqSum([o \in DOMAIN booth_operations |->
                                  IF o \in closed
                                  THEN ((booth_operations'[o].ended_at
                                         - booth_operations[o].started_at) * 100
                                        + 30) \div 60
                                  ELSE 0])]_vars

\* two operations of one booth and date closed, one of them ended a day
\* after it started
C19_TwoClosesOneRow ==
    \E r \in booth_daily_stats :
        r.operator_count = 2 /\ r.operation_hours > 0

----------------------------------------------------------------------------
(* Further properties of sessions over time (SpecSession) *)

\* C18: the expiry of a session never decreases: in every step a session
\* that stays stored (the localStorage session of an operation, issued for
\* 24 hours and extended by refreshSession, or the operator_sessions row of
\* a token, issued for 8 hours) has an expiry at or after its previous one.
C18_ExpiryNeverDecreases ==
    [][/\ \A p \in Procs :
             (/\ localStorage[p].operator_session # <<>>
              /\ localStorage'[p].operator_session # <<>>
              /\ localStorage'[p].operator_session[1].operationId
                     = localStorage[p].operator_session[1].operationId)
             => localStorage'[p].operator_session[1].expiresAt
                    >= localStorage[p].operator_session[1].expiresAt
       /\ \A x \in operator_sessions, y \in operator_sessions' :
             x.session_token = y.session_token
             => y.expires_at >= x.expires_at]_vars

\* a session refreshed to a later expiry, 24 hours after a refresh made
\* after its issue
C18_RefreshedLater ==
    \E p \in Procs :
        /\ lastRefresh[p] # <<>>
        /\ lastRefresh[p][1].at > 0
        /\ lastRefresh[p][1].new > lastRefresh[p][1].old
        /\ localStorage[p].operator_session # <<>>
        /\ localStorage[p].operator_session[1].expiresAt = lastRefresh[p][1].new

----------------------------------------------------------------------------
(* booth-code.js: generateBoothCode, isCodeUnique, generateUniqueBoothCode,  *)
(* assignCodeToBooth.  Here a code is the sequence of its characters and a   *)
(* booth without a code holds <<>>.                                          *)

DEFAULT_MAX_ATTEMPTS == 10     \* generateUniqueBoothCode(maxAttempts = 10)
DEFAULT_EXPIRY_DAYS == 30      \* assignCodeToBooth(boothId, expiryDays = 30)
RADIX == 36                    \* Date.now().toString(36)

letters == <<"A", "B", "C", "D", "E", "F", "G", "H", "I", "J", "K", "L", "M",
             "N", "O", "P", "Q", "R", "S", "T", "U", "V", "W", "X", "Y", "Z">>
numbers == <<"0", "1", "2", "3", "4", "5", "6", "7", "8", "9">>

\* the digits of Number.prototype.toString(36), upper-cased
base36 == numbers \o letters

\* values of Math.floor(Math.random() * length) for the six characters of
\* generateBoothCode: they spell ABC123, DEF456, XXK123
RandomDraws == {<<0, 1, 2, 1, 2, 3>>, <<3, 4, 5, 4, 5, 6>>,
                <<23, 23, 10, 1, 2, 3>>}

\* values of Date.now() (milliseconds); their last three base-36 digits
\* are K12 and A7K
DateNowValues == {20 * 1296 + 1 * 36 + 2 + 46656, 10 * 1296 + 7 * 36 + 20 + 46656}

\* values of Math.floor(Math.random() * 10) in the fallback
RandomDigits == {3}

\* outcomes of the select of isCodeUnique: it answers, it answers with an
\* error object (data is null), or the request throws
Faults == {"none", "error", "throw"}

generateBoothCode(r) ==
    <<letters[r[1] + 1], letters[r[2] + 1], letters[r[3] + 1],
      numbers[r[4] + 1], numbers[r[5] + 1], numbers[r[6] + 1]>>

\* select id from booths where booth_code = code (.single()); return !data
isCodeUnique(code, fault) ==
    IF fault = "throw" THEN FALSE
    ELSE IF fault = "error" THEN TRUE
    ELSE Cardinality({b \in DOMAIN booths : booths[b].booth_code = code}) # 1

\* Date.now().toString(36).substr(-3).toUpperCase()
timestampChars(ms) ==
    <<base36[((ms \div (RADIX * RADIX)) % RADIX) + 1],
      base36[((ms \div RADIX) % RADIX) + 1],
      base36[(ms % RADIX) + 1]>>

\* 'XX' + timestamp + Math.floor(Math.random() * 10)
fallbackCode(ms, digit) == <<"X", "X">> \o timestampChars(ms) \o <<numbers[digit + 1]>>

\* a loop that makes one more pass
moreAttempts_orEqual(i, maxAttempts) == i <= maxAttempts

\* the loop condition i < maxAttempts
moreAttempts(i, maxAttempts) == i < maxAttempts

\* a booths table without the constraint
violatesUnique_never(bs, boothId, code) == FALSE

\* booth_code VARCHAR(6) UNIQUE: the update would give a second booth the code
violatesUnique(bs, boothId, code) ==
    \E b \in DOMAIN bs : b # boothId /\ bs[b].booth_code = code

\* generateUniqueBoothCode has its code: it returns it, and assignCodeToBooth
\* sends its update
CodeChosen(p, code, checks, fallback) ==
    IF call[p].fn = "assignCodeToBooth"
    THEN /\ pc' = [pc EXCEPT ![p] = "a_update"]
         /\ loc' = [loc EXCEPT ![p].code = code, ![p].i = checks]
         /\ UNCHANGED <<call, ret>>
    ELSE Return(p, [NoRet EXCEPT !.fn = "generateUniqueBoothCode",
                                 !.success = TRUE, !.code = code,
                                 !.checks = checks,
                                 !.maxAttempts = call[p].maxAttempts,
                                 !.fallback = fallback])

generateBoothCode_call(p, r) ==
    /\ pc[p] = "idle"
    /\ Return(p, [NoRet EXCEPT !.fn = "generateBoothCode", !.success = TRUE,
                               !.code = generateBoothCode(r)])
    /\ UNCHANGED <<now, dbTables, localStorage, lastRefresh, vret>>

\* the call of generateUniqueBoothCode(maxAttempts) or of
\* assignCodeToBooth(boothId, expiryDays), up to the first request
UniqueCode_call(p, fn, boothId, maxAttempts, ms, digit) ==
    /\ pc[p] = "idle"
    /\ LET c == [NoCall EXCEPT !.fn = fn, !.boothId = boothId,
                               !.maxAttempts = maxAttempts,
                               !.expiryDays = DEFAULT_EXPIRY_DAYS]
       IN  IF moreAttempts(0, maxAttempts)
           THEN /\ pc' = [pc EXCEPT ![p] = "u_check"]
                /\ call' = [call EXCEPT ![p] = c]
                /\ UNCHANGED <<loc, ret>>
           ELSE IF fn = "assignCodeToBooth"
           THEN /\ pc' = [pc EXCEPT ![p] = "a_update"]
                /\ call' = [call EXCEPT ![p] = c]
                /\ loc' = [loc EXCEPT ![p].code = fallbackCode(ms, digit)]
                /\ UNCHANGED ret
           ELSE Return(p, [NoRet EXCEPT !.fn = fn, !.success = TRUE,
                                        !.code = fallbackCode(ms, digit),
                                        !.maxAttempts = maxAttempts,
                                        !.fallback = TRUE])
    /\ UNCHANGED <<now, dbTables, localStorage, lastRefresh, vret>>

generateUniqueBoothCode_call(p, maxAttempts, ms, digit) ==
    UniqueCode_call(p, "generateUniqueBoothCode", NULL, maxAttempts, ms, digit)

assignCodeToBooth_call(p, boothId, ms, digit) ==
    UniqueCode_call(p, "assignCodeToBooth", boothId, DEFAULT_MAX_ATTEMPTS, ms, digit)

\* one pass of the loop: generateBoothCode, await isCodeUnique(code), then
\* return the code, go round again, or leave the loop with the fallback code
generateUniqueBoothCode_check(p, r, fault, ms, digit) ==
    /\ pc[p] = "u_check"
    /\ LET code == generateBoothCode(r)
       IN  IF isCodeUnique(code, fault)
           THEN CodeChosen(p, code, loc[p].i + 1, FALSE)
           ELSE IF moreAttempts(loc[p].i + 1, call[p].maxAttempts)
           THEN /\ loc' = [loc EXCEPT ![p].i = @ + 1]
                /\ UNCHANGED <<pc, call, ret>>
           ELSE CodeChosen(p, fallbackCode(ms, digit), loc[p].i + 1, TRUE)
    /\ UNCHANGED <<now, dbTables, localStorage, lastRefresh, vret>>

\* update booths set booth_code = code, code_expires_at = expiresAt
\* where id = boothId
assignCodeToBooth_update(p) ==
    /\ pc[p] = "a_update"
    /\ LET r == [NoRet EXCEPT !.fn = "assignCodeToBooth",
                              !.boothId = call[p].boothId,
                              !.code = loc[p].code, !.checks = loc[p].i]
       IN  IF violatesUnique(booths, call[p].boothId, loc[p].code)
           THEN /\ UNCHANGED booths
                /\ Return(p, [r EXCEPT !.error = "unique_violation"])
           ELSE /\ booths' = [booths EXCEPT
                       ![call[p].boothId].booth_code = loc[p].code,
                       ![call[p].boothId].code_expires_at =
                           now + call[p].expiryDays * DayMinutes]
                /\ Return(p, [r EXCEPT !.success = TRUE,
                                       !.expires_at =
                                           now + call[p].expiryDays * DayMinutes])
    /\ UNCHANGED <<now, booth_operations, operator_sessions, participants,
                   booth_daily_stats, code_attempts, closures, localStorage,
                   lastRefresh, vret>>

(* Code management: two callers generate codes and assign them to the two    *)
(* booths; booth 1 holds ABC123 and booth 2 has no code yet.                 *)
CodeBooths ==
    [InitBooths EXCEPT ![1].booth_code = generateBoothCode(<<0, 1, 2, 1, 2, 3>>),
                       ![2].booth_code = <<>>]

InitCodes ==
    /\ now = 0
    /\ booths = CodeBooths
    /\ booth_operations = <<>>
    /\ operator_sessions = {}
    /\ participants = <<>>
    /\ booth_daily_stats = {}
    /\ code_attempts = <<>>
    /\ localStorage = [p \in Procs |-> NoStorage]
    /\ pc = [p \in Procs |-> "idle"]
    /\ call = [p \in Procs |-> NoCall]
    /\ loc = [p \in Procs |-> NoLoc]
    /\ ret = [p \in Procs |-> NoRet]
    /\ closures = <<>>
    /\ lastRefresh = [p \in Procs |-> <<>>]
    /\ vret = NoVret

MaxAttemptsInputs == {0, 1, 2}

CodesNext(P) ==
    \/ \E p \in P, r \in RandomDraws : generateBoothCode_call(p, r)
    \/ \E p \in P, m \in MaxAttemptsInputs, ms \in DateNowValues,
          d \in RandomDigits : generateUniqueBoothCode_call(p, m, ms, d)
    \/ \E p \in P, b \in Booths, ms \in DateNowValues, d \in RandomDigits :
           assignCodeToBooth_call(p, b, ms, d)
    \/ \E p \in P, r \in RandomDraws, f \in Faults, ms \in DateNowValues,
          d \in RandomDigits : generateUniqueBoothCode_check(p, r, f, ms, d)
    \/ \E p \in P : assignCodeToBooth_update(p)
    \/ \E p \in P : Resume(p)

NextCodes == CodesNext(Procs)

SpecCodes == InitCodes /\ [][NextCodes]_vars

(* One caller whose requests are answered: a pending isCodeUnique or update *)
(* request completes and its continuation runs.                             *)
NextCodesFair == CodesNext({1})

SpecCodesFair ==
    /\ InitCodes
    /\ [][NextCodesFair]_vars
    /\ WF_vars(\E r \in RandomDraws, f \in Faults, ms \in DateNowValues,
                  d \in RandomDigits : generateUniqueBoothCode_check(1, r, f, ms, d))
    /\ WF_vars(assignCodeToBooth_update(1))

----------------------------------------------------------------------------
(* Properties of code management (SpecCodes, SpecCodesFair) *)

\* no two booths hold the same code
NoDuplicateCode(bs) ==
    \A b1, b2 \in DOMAIN bs :
        (b1 # b2 /\ bs[b1].booth_code # <<>>)
        => bs[b1].booth_code # bs[b2].booth_code

\* C14: in every state no two booths hold the same non-null code, also when
\* assignCodeToBooth calls for different booths interleave, and an
\* assignment of a code that another booth holds fails and changes nothing.
C14_CodesUnique ==
    /\ NoDuplicateCode(booths)
    /\ [][/\ NoDuplicateCode(booths')
          /\ \A p \in Procs :
                (/\ pc[p] = "a_update" /\ pc'[p] = "done"
                 /\ \E b \in DOMAIN booths :
                        /\ b # call[p].boothId
                        /\ booths[b].booth_code = loc[p].code)
                => ~ret'[p].success /\ booths' = booths]_vars

\* an assignment refused because another booth holds the code
C14_AssignmentRefused ==
    \E p \in Procs :
        /\ pc[p] = "done" /\ ret[p].fn = "assignCodeToBooth"
        /\ ~ret[p].success
        /\ \E b \in DOMAIN booths :
               b # ret[p].boothId /\ booths[b].booth_code = ret[p].code

\* C15: generateUniqueBoothCode never hands over a code that a different
\* booth holds at that moment, on any path (the fallback included), and
\* when the update of assignCodeToBooth meets a code another booth holds
\* the call reports the failure.
C15_GeneratedCodeUnassigned ==
    [][\A p \in Procs :
          /\ (/\ pc[p] # "done" /\ pc'[p] = "done"
              /\ ret'[p].fn = "generateUniqueBoothCode")
             => \A b \in DOMAIN booths : booths[b].booth_code # ret'[p].code
          /\ (pc[p] \in {"idle", "u_check"} /\ pc'[p] = "a_update")
             => \A b \in DOMAIN booths :
                    b # call'[p].boothId => booths[b].booth_code # loc'[p].code
          /\ (/\ pc[p] = "a_update" /\ pc'[p] = "done"
              /\ \E b \in DOMAIN booths :
                     b # call[p].boothId /\ booths[b].booth_code = loc[p].code)
             => ~ret'[p].success]_vars

\* 3 uppercase ASCII letters followed by 3 digits
IsCodeFormat(c) ==
    /\ Len(c) = 6
    /\ \A k \in 1..3 :
           c[k] \in {"A", "B", "C", "D", "E", "F", "G", "H", "I", "J", "K", "L",
                     "M", "N", "O", "P", "Q", "R", "S", "T", "U", "V", "W", "X",
                     "Y", "Z"}
    /\ \A k \in 4..6 : c[k] \in Digits

\* C16: every code returned by generateBoothCode or generateUniqueBoothCode
\* (its fallback included) is 3 uppercase letters followed by 3 digits.
C16_GeneratedCodeFormat ==
    \A p \in Procs :
        (/\ pc[p] = "done"
         /\ ret[p].fn \in {"generateBoothCode", "generateUniqueBoothCode"})
        => IsCodeFormat(ret[p].code)

----------------------------------------------------------------------------
(* booth-operations.js: calculateDuration(startTime, endTime).  The two     *)
(* arguments are ISO-8601 strings; new Date() turns each into milliseconds  *)
(* since the epoch, and an endTime of null stands for the current time.     *)

MS_PER_MINUTE == 1000 * 60
MS_PER_HOUR == 1000 * 60 * 60

\* the JavaScript remainder a % b for b > 0: it has the sign of a
JsRem(a, b) == IF a >= 0 THEN a % b ELSE 0 - ((0 - a) % b)

\* a duration whose total is rounded to the nearest minute
calculateDuration_rounded(startTime, endTime, t) ==
    LET end == IF endTime = NULL THEN t ELSE endTime
        diffMs == end - startTime
    IN  [hours |-> diffMs \div MS_PER_HOUR,
         minutes |-> JsRem(diffMs, MS_PER_HOUR) \div MS_PER_MINUTE,
         totalMinutes |-> (diffMs + MS_PER_MINUTE \div 2) \div MS_PER_MINUTE]

\* Math.floor(diffMs / 3600000), Math.floor((diffMs % 3600000) / 60000),
\* Math.floor(diffMs / 60000); t is the current time in milliseconds
calculateDuration(startTime, endTime, t) ==
    LET end == IF endTime = NULL THEN t ELSE endTime
        diffMs == end - startTime
    IN  [hours |-> diffMs \div MS_PER_HOUR,
         minutes |-> JsRem(diffMs, MS_PER_HOUR) \div MS_PER_MINUTE,
         totalMinutes |-> diffMs \div MS_PER_MINUTE]

\* a time of day in milliseconds
TimeOfDay(h, m, sec, ms) == ((h * 60 + m) * 60 + sec) * 1000 + ms

(* Arguments: times around whole minutes and whole hours, the same instant  *)
(* twice, a span of more than a day, and ends before the start.             *)
StartTimes == {0, TimeOfDay(9, 59, 59, 999), TimeOfDay(10, 0, 0, 0),
               TimeOfDay(10, 0, 0, 500), TimeOfDay(10, 30, 0, 0)}

EndTimes == {NULL, TimeOfDay(9, 0, 0, 0), TimeOfDay(10, 0, 0, 0),
             TimeOfDay(10, 0, 59, 999), TimeOfDay(10, 1, 0, 0),
             TimeOfDay(10, 59, 59, 999), TimeOfDay(11, 0, 0, 0),
             TimeOfDay(11, 0, 0, 499), TimeOfDay(11, 45, 29, 999),
             TimeOfDay(11, 45, 30, 0), TimeOfDay(12, 0, 0, 0),
             TimeOfDay(34, 15, 10, 0)}

calculateDuration_call(p, startTime, endTime) ==
    /\ pc[p] = "idle"
    /\ Return(p, [NoRet EXCEPT
            !.fn = "calculateDuration", !.success = TRUE,
            !.duration =
                <<[startTime |-> startTime,
                   endTime |-> IF endTime = NULL THEN now * MS_PER_MINUTE
                               ELSE endTime]
                  @@ calculateDuration(startTime, endTime, now * MS_PER_MINUTE)>>])
    /\ UNCHANGED <<now, dbTables, localStorage, lastRefresh, vret>>

(* Durations: two callers compute durations of the sample spans.            *)
NextDuration ==
    \/ \E p \in Procs, s \in StartTimes, e \in EndTimes :
           calculateDuration_call(p, s, e)
    \/ \E p \in Procs : Resume(p)

SpecDuration == Init /\ [][NextDuration]_vars

\* C25: for every startTime <= endTime calculateDuration returns
\* totalMinutes = floor((endTime - startTime) / 1 minute), hours =
\* totalMinutes div 60 and minutes = totalMinutes mod 60, so that
\* 0 <= minutes < 60 and hours * 60 + minutes = totalMinutes; 10:00:00 to
\* 11:45:30 gives 1 hour, 45 minutes and totalMinutes 105.
C25_DurationFloorMinutes ==
    \A p \in Procs :
        (pc[p] = "done" /\ ret[p].fn = "calculateDuration"
         /\ ret[p].duration[1].startTime <= ret[p].duration[1].endTime)
        => LET d == ret[p].duration[1]
           IN  /\ d.totalMinutes * 60000 <= d.endTime - d.startTime
               /\ d.endTime - d.startTime < (d.totalMinutes + 1) * 60000
               /\ d.hours = d.totalMinutes \div 60
               /\ d.minutes = d.totalMinutes % 60
               /\ 0 <= d.minutes /\ d.minutes < 60
               /\ d.hours * 60 + d.minutes = d.totalMinutes
               /\ (d.startTime = 36000000 /\ d.endTime = 42330000)
                  => (d.hours = 1 /\ d.minutes = 45 /\ d.totalMinutes = 105)

\* the duration of 10:00:00 to 11:45:30 returned
C25_ScenarioComputed ==
    \E p \in Procs :
        /\ pc[p] = "done" /\ ret[p].fn = "calculateDuration"
        /\ ret[p].duration[1].startTime = 36000000
        /\ ret[p].duration[1].endTime = 42330000
        /\ ret[p].duration[1].totalMinutes = 105

----------------------------------------------------------------------------
(* Code expiry: booth 1's code expires half an hour in, booth 2's code has  *)
(* no expiry; both booths are active.  Clients validate the codes through   *)
(* the database function and through the client function while the clock    *)
(* runs past the expiry.                                                    *)
ExpiryBooths ==
    [InitBooths EXCEPT ![1].code_expires_at = HourMinutes \div 2,
                       ![2].code_expires_at = NULL]

InitExpiry ==
    /\ now = 0
    /\ booths = ExpiryBooths
    /\ booth_operations = <<>>
    /\ operator_sessions = {}
    /\ participants = <<>>
    /\ booth_daily_stats = {}
    /\ code_attempts = <<>>
    /\ localStorage = [p \in Procs |-> NoStorage]
    /\ pc = [p \in Procs |-> "idle"]
    /\ call = [p \in Procs |-> NoCall]
    /\ loc = [p \in Procs |-> NoLoc]
    /\ ret = [p \in Procs |-> NoRet]
    /\ closures = <<>>
    /\ lastRefresh = [p \in Procs |-> <<>>]
    /\ vret = NoVret

SpecExpiry == InitExpiry /\ [][NextValidate]_vars

\* C26: a validation of a code whose booth has code_expires_at set and
\* earlier than the time of the call is never valid, also when the code
\* matches exactly and the booth is active: it is rejected as expired (or,
\* by the database function, as rate-limited when the address has 5 recent
\* failures, the check made before the lookup); a code whose booth has
\* code_expires_at null is never rejected as expired.
C26_ExpiredCodeNeverValid ==
    vret.fn # "none"
    => \A b \in DOMAIN booths :
           booths[b].booth_code = vret.code
           => /\ (booths[b].code_expires_at # NULL
                  /\ booths[b].code_expires_at < vret.at)
                 => /\ ~vret.is_valid
                    /\ \/ vret.reason = "expired"
                       \/ /\ vret.reason = "rate_limited"
                          /\ FailedWithinWindow(vret.ip, vret.at,
                                                vret.rowsBefore) >= 5
              /\ booths[b].code_expires_at = NULL
                 => vret.reason # "expired"

\* the client function rejected the matching code of an active booth as
\* expired, half an hour after its expiry
C26_MatchingCodeExpired ==
    /\ vret.fn = "validateBoothCode"
    /\ vret.reason = "expired"
    /\ \E b \in DOMAIN booths :
           /\ booths[b].booth_code = vret.code /\ booths[b].is_active
           /\ booths[b].code_expires_at < vret.at

----------------------------------------------------------------------------
(* Frame of a successful resolve (SpecSession) *)

\* C30: a successful resolve of a token changes only last_activity of the
\* token's session: its expires_at, token and operation, every other
\* session and every table but operator_sessions are unchanged; a
\* successful getOperatorSession changes neither a table nor localStorage.
C30_ResolveTouchesOnlyActivity ==
    [][\A p \in Procs :
          /\ (pc[p] = "g_touch" /\ pc'[p] = "done" /\ ret'[p].success)
             => /\ booth_operations' = booth_operations
                /\ booths' = booths
                /\ booth_daily_stats' = booth_daily_stats
                /\ participants' = participants
                /\ localStorage' = localStorage
                /\ Cardinality(operator_sessions') = Cardinality(operator_sessions)
                /\ \A x \in operator_sessions :
                       IF x.session_token = call[p].sessionToken
                       THEN \E y \in operator_sessions' :
                                y = [x EXCEPT !.last_activity = y.last_activity]
                       ELSE x \in operator_sessions'
          /\ (/\ pc[p] = "idle" /\ pc'[p] = "done"
              /\ ret'[p].fn = "getOperatorSession" /\ ret'[p].success)
             => /\ localStorage' = localStorage
                /\ dbTables' = dbTables]_vars

\* a session resolved after the clock has moved: its last_activity is the
\* time of the resolve, its expiry the one the resolve read, and the session
\* of another operation is stored beside it
C30_ResolvedBesideAnother ==
    \E p \in Procs :
        /\ pc[p] = "done" /\ ret[p].fn = "Ops.getCurrent" /\ ret[p].success
        /\ ret[p].at > 0
        /\ \E x, y \in operator_sessions :
               /\ x.session_token = ret[p].sessionToken
               /\ x.last_activity = ret[p].at
               /\ x.expires_at = ret[p].expires_at
               /\ y.session_token # x.session_token

----------------------------------------------------------------------------
(* Removing sessions: clearOperatorSession() called by the page, and the    *)
(* schema's cleanup_expired_sessions() run by a scheduler.                  *)

CLEANUP_ATTEMPT_DAYS == 7      \* INTERVAL '7 days'

clearOperatorSession_call(p) ==
    /\ pc[p] = "idle"
    /\ localStorage' = [localStorage EXCEPT ![p] = clearOperatorSession(@)]
    /\ Return(p, [NoRet EXCEPT !.fn = "clearOperatorSession", !.success = TRUE])
    /\ UNCHANGED <<now, dbTables, lastRefresh, vret>>

\* a cleanup that also closes the operations of the sessions it deletes
cleanup_expired_sessions_closing ==
    /\ operator_sessions' = {x \in operator_sessions : ~(x.expires_at < now)}
    /\ code_attempts' =
           SelectSeq(code_attempts,
                     LAMBDA a : ~(a.attempted_at
                                      < now - CLEANUP_ATTEMPT_DAYS * DayMinutes))
    /\ booth_operations' =
           [o \in DOMAIN booth_operations |->
               IF \E x \in operator_sessions :
                      x.booth_operation_id = o /\ x.expires_at < now
               THEN [booth_operations[o] EXCEPT !.is_active = FALSE,
                                                !.ended_at = now]
               ELSE booth_operations[o]]
    /\ UNCHANGED <<now, booths, participants, booth_daily_stats, closures,
                   localStorage, pc, call, loc, ret, lastRefresh, vret>>

\* a cleanup that also deletes the sessions whose expiry is this instant
cleanup_expired_sessions_orEqual ==
    /\ operator_sessions' = {x \in operator_sessions : ~(x.expires_at <= now)}
    /\ code_attempts' =
           SelectSeq(code_attempts,
                     LAMBDA a : ~(a.attempted_at
                                      < now - CLEANUP_ATTEMPT_DAYS * DayMinutes))
    /\ UNCHANGED <<now, booths, booth_operations, participants,
                   booth_daily_stats, closures, localStorage, pc, call, loc, ret,
                   lastRefresh, vret>>

\* DELETE FROM operator_sessions WHERE expires_at < NOW();
\* DELETE FROM code_attempts WHERE attempted_at < NOW() - INTERVAL '7 days'
cleanup_expired_sessions ==
    /\ operator_sessions' = {x \in operator_sessions : ~(x.expires_at < now)}
    /\ code_attempts' =
           SelectSeq(code_attempts,
                     LAMBDA a : ~(a.attempted_at
                                      < now - CLEANUP_ATTEMPT_DAYS * DayMinutes))
    /\ UNCHANGED <<now, booths, booth_operations, participants,
                   booth_daily_stats, closures, localStorage, pc, call, loc, ret,
                   lastRefresh, vret>>

(* Sessions removed: one caller starts operations, logs in, resolves, reads *)
(* and clears its sessions while the clock runs past their lifetimes and    *)
(* the scheduler runs the cleanup.  Nobody calls End.                       *)
NextJanitor ==
    \/ TickTo(TickSteps, MaxTime)
    \/ OpsStartNext({1}, Booths)
    \/ OpsResolveNext({1})
    \/ LoginNext({1})
    \/ getOperatorSession_call(1)
    \/ clearOperatorSession_call(1)
    \/ cleanup_expired_sessions
    \/ Resume(1)

SpecJanitor == Init /\ [][NextJanitor]_vars

\* a step that removes a session without a start or an End: the cleanup,
\* clearOperatorSession, or a read that finds the session expired
SessionRemovalStep ==
    \/ /\ pc' = pc
       /\ \E x \in operator_sessions : x \notin operator_sessions'
    \/ \E p \in Procs :
          /\ pc[p] = "idle" /\ pc'[p] = "done"
          /\ ret'[p].fn \in {"clearOperatorSession", "getOperatorSession"}
          /\ localStorage[p].operator_session # <<>>
          /\ localStorage'[p].operator_session = <<>>
    \/ \E p \in Procs :
          /\ pc[p] = "g_touch" /\ pc'[p] = "done"
          /\ ret'[p].error = "expired"

\* C29: a step that removes a session (clearOperatorSession, a read that
\* finds the session expired, the cleanup) changes no row of
\* booth_operations: the operation of the session keeps is_active, ended_at
\* and total_participants, and each booth keeps its number of active
\* operations.
C29_SessionRemovalKeepsOperations ==
    [][SessionRemovalStep
       => /\ booth_operations' = booth_operations
          /\ \A b \in DOMAIN booths :
                 ActiveCount(booth_operations', b) = ActiveCount(booth_operations, b)]_vars

\* the cleanup deleted the session of an active operation of a booth (the
\* caller still holds its token), and a later start for the booth was
\* refused for capacity
C29_StillCountsAfterCleanup ==
    \E o \in DOMAIN booth_operations :
        /\ booth_operations[o].is_active
        /\ localStorage[1].session_token = generateSessionToken(o)
        /\ SessionsByToken(generateSessionToken(o)) = {}
        /\ pc[1] = "done" /\ ret[1].fn = "Ops.start"
        /\ ret[1].error = "at_capacity"
        /\ ret[1].boothId = booth_operations[o].booth_id

----------------------------------------------------------------------------
(* Admission without concurrent requests (SpecClose: one caller) *)

\* C23: with one caller, a start for an existing booth is admitted exactly
\* when the booth's number of active operations is strictly below its
\* max_operators: startBoothOperation(boothId, ...) goes on to its insert
\* exactly then, a start refused for capacity inserts no operation and no
\* session, and a login whose code was validated goes on to its insert only
\* below capacity.
C23_AdmittedIffBelowCapacity ==
    [][\A p \in Procs :
          /\ (pc[p] = "s_insert" /\ pc'[p] # pc[p])
             => /\ (pc'[p] = "s_session")
                   <=> (ActiveCount(booth_operations, call[p].boothId)
                            < booths[call[p].boothId].max_operators)
                /\ pc'[p] # "s_session"
                   => /\ ret'[p].error = "at_capacity"
                      /\ booth_operations' = booth_operations
                      /\ operator_sessions' = operator_sessions
          /\ (pc[p] = "l_validate" /\ pc'[p] = "l_close")
             => ActiveCount(booth_operations, loc'[p].boothId)
                    < booths[loc'[p].boothId].max_operators]_vars

----------------------------------------------------------------------------
(* Participants.  The registration of participants is not part of these     *)
(* modules: the participant store is an external store that is queried by   *)
(* booth and time.  A registration adds a row with the booth it is          *)
(* attributed to and its creation time.                                     *)

participant_registered(b) ==
    /\ Len(participants) < MaxParticipants
    /\ participants' = Append(participants, [booth_id |-> b, created_at |-> now])
    /\ UNCHANGED <<now, booths, booth_operations, operator_sessions,
                   booth_daily_stats, code_attempts, closures, localStorage, pc,
                   call, loc, ret, lastRefresh, vret>>

(* Counting participants: one caller starts and ends operations of the two  *)
(* booths in both modules while participants register and the clock runs    *)
(* into the next day.                                                       *)
NextParticipants ==
    \/ TickTo(CloseTickSteps, MaxTime)
    \/ \E b \in Booths : participant_registered(b)
    \/ OpsStartNext({1}, Booths)
    \/ OpsEndNext({1})
    \/ LogoutNext({1})
    \/ Resume(1)

SpecParticipants == Init /\ [][NextParticipants]_vars

\* the participant records of a booth created from a time on, up to a time
ParticipantsOfBooth(b, from, to) ==
    {i \in DOMAIN participants :
        /\ participants[i].booth_id = b
        /\ participants[i].created_at >= from
        /\ participants[i].created_at <= to}

\* C24: the step of End that closes an operation sets its
\* total_participants to the number of participant records of the
\* operation's booth created at or after its started_at and not after its
\* ended_at.
C24_TotalParticipantsOfBoothSinceStart ==
    [][\A p \in Procs :
          (pc[p] \in {"e_update", "c_end"} /\ pc'[p] # pc[p])
          => LET o == call[p].operationId
             IN  booth_operations'[o].total_participants =
                     Cardinality(ParticipantsOfBooth(
                         booth_operations[o].booth_id,
                         booth_operations[o].started_at,
                         booth_operations'[o].ended_at))]_vars

----------------------------------------------------------------------------
(* Operator information: one caller starts operations and logs in with      *)
(* every combination of the sample names and phones.                        *)

OperatorInfos == [name : Names, phone : Phones]

NextInput ==
    \/ \E b \in Booths, info \in OperatorInfos :
           Ops_startBoothOperation_callInfo(1, b, info)
    \/ Ops_startBoothOperation_active(1)
    \/ Ops_startBoothOperation_booth(1)
    \/ Ops_startBoothOperation_insert(1)
    \/ Ops_startBoothOperation_session(1)
    \/ \E c \in Codes, info \in OperatorInfos : operatorLogin_callInfo(1, c, info)
    \/ Code_startBoothOperation_validate(1)
    \/ Code_startBoothOperation_close(1)
    \/ Code_startBoothOperation_insert(1)
    \/ Resume(1)

SpecInput == Init /\ [][NextInput]_vars

\* the operatorInfo of the start call that caller p makes in this step
\* (<<>> when p makes none)
StartCallInfo(p) ==
    IF pc[p] # "idle" \/ pc'[p] = "idle" THEN <<>>
    ELSE IF pc'[p] = "done" THEN ret'[p].operatorInfo
    ELSE call'[p].operatorInfo

\* C27: a start call (startBoothOperation of booth-operations.js,
\* operatorLogin) whose operator name is empty or whitespace only returns a
\* validation error at once and changes no table, and no step of such a
\* call adds an operation or a session.
C27_BlankNameRejected ==
    [][\A p \in Procs :
          /\ (StartCallInfo(p) # <<>> /\ Trim(StartCallInfo(p)[1].name) = <<>>)
             => /\ pc'[p] = "done"
                /\ ~ret'[p].success
                /\ ret'[p].error \in {"name_required", "name_phone_required",
                                      "phone_invalid", "bad_code"}
                /\ dbTables' = dbTables
          /\ (call[p].operatorInfo # <<>>
              /\ Trim(call[p].operatorInfo[1].name) = <<>>)
             => /\ booth_operations' = booth_operations
                /\ operator_sessions' = operator_sessions]_vars

\* C28: a start call with a non-empty name and no contact is not rejected
\* for its contact; a start call with a non-empty name and a contact is
\* rejected for its contact exactly when fewer than 10 digits remain after
\* the non-digits are stripped.
C28_ContactOptional ==
    [][\A p \in Procs :
          (/\ StartCallInfo(p) # <<>>
           /\ Trim(StartCallInfo(p)[1].name) # <<>>
           /\ ~(pc'[p] = "done" /\ ret'[p].error = "bad_code"))
          => LET phone == StartCallInfo(p)[1].phone
                 rejected == /\ pc'[p] = "done"
                             /\ ret'[p].error \in {"name_phone_required",
                                                   "phone_invalid"}
             IN  IF phone = <<>> THEN ~rejected
                 ELSE rejected <=> (Len(StripNonDigits(phone)) < 10)]_vars

----------------------------------------------------------------------------
(* Storage failures.  A request that fails is answered with an error object *)
(* ({ data: null, error }) or, when no answer arrives, rejects the awaited  *)
(* promise; the second outcome reaches the catch block of the function.     *)
(* Code that tests the error object (if (error) throw error) ends in its    *)
(* catch block for both.  A failed request leaves its table as it was.      *)

WriteFaults == {"error", "throw"}

\* the result of a catch block
Failure(fn, p) ==
    [NoRet EXCEPT !.fn = fn, !.error = "storage", !.writeFailed = TRUE,
                  !.operationId = call[p].operationId,
                  !.boothId = call[p].boothId]

\* booth-operations.js start: the insert into booth_operations fails;
\* if (operationError) throw operationError
Ops_startBoothOperation_insert_fails(p) ==
    /\ pc[p] = "s_insert"
    /\ ~Ops_atCapacity(loc[p].activeOperations, loc[p].booth)
    /\ Return(p, Failure("Ops.start", p))
    /\ UNCHANGED <<now, dbTables, localStorage, lastRefresh, vret>>

\* booth-operations.js start: the insert into operator_sessions fails;
\* if (sessionError) throw sessionError.  The row of booth_operations stays.
Ops_startBoothOperation_session_fails(p) ==
    /\ pc[p] = "s_session"
    /\ Return(p, Failure("Ops.start", p))
    /\ UNCHANGED <<now, dbTables, localStorage, lastRefresh, vret>>

\* booth-code.js start: the update that closes the active operations fails;
\* its result is not looked at
Code_startBoothOperation_close_fails(p, fault) ==
    /\ pc[p] = "l_close"
    /\ IF fault = "throw"
       THEN Return(p, Failure("operatorLogin", p))
       ELSE /\ pc' = [pc EXCEPT ![p] = "l_insert"]
            /\ call' = [call EXCEPT ![p].writeFailed = TRUE]
            /\ UNCHANGED <<loc, ret>>
    /\ UNCHANGED <<now, dbTables, localStorage, lastRefresh, vret>>

\* booth-code.js start: the insert fails; if (error) throw error, and
\* operatorLogin returns the failed result
Code_startBoothOperation_insert_fails(p) ==
    /\ pc[p] = "l_insert"
    /\ Return(p, Failure("operatorLogin", p))
    /\ UNCHANGED <<now, dbTables, localStorage, lastRefresh, vret>>

\* booth-operations.js End: the update fails; if (error) throw error
Ops_endBoothOperation_update_fails(p) ==
    /\ pc[p] = "e_update"
    /\ Return(p, Failure("Ops.end", p))
    /\ UNCHANGED <<now, dbTables, localStorage, lastRefresh, vret>>

\* booth-operations.js End: the delete of the session fails; its result is
\* not looked at
Ops_endBoothOperation_delete_fails(p, fault) ==
    /\ pc[p] = "e_delete"
    /\ IF fault = "throw"
       THEN /\ Return(p, Failure("Ops.end", p))
            /\ UNCHANGED localStorage
       ELSE /\ localStorage' = [localStorage EXCEPT ![p] = Ops_clearLocal(@)]
            /\ Return(p, [NoRet EXCEPT !.fn = "Ops.end", !.success = TRUE,
                                       !.writeFailed = TRUE,
                                       !.operationId = call[p].operationId,
                                       !.sessionToken = call[p].sessionToken])
    /\ UNCHANGED <<now, dbTables, lastRefresh, vret>>

\* a logout that gives up when End fails and leaves the stored session
Code_endBoothOperation_update_fails_keeping(p) ==
    /\ pc[p] = "c_end"
    /\ Return(p, Failure(call[p].fn, p))
    /\ UNCHANGED <<now, dbTables, localStorage, lastRefresh, vret>>

\* booth-code.js End: the update fails and endBoothOperation returns
\* success: false; operatorLogout does not look at that result, clears the
\* session and returns success
Code_endBoothOperation_update_fails(p) ==
    /\ pc[p] = "c_end"
    /\ IF call[p].fn = "operatorLogout"
       THEN /\ localStorage' = [localStorage EXCEPT ![p] = clearOperatorSession(@)]
            /\ Return(p, [NoRet EXCEPT !.fn = "operatorLogout", !.success = TRUE,
                                       !.writeFailed = TRUE,
                                       !.operationId = call[p].operationId])
       ELSE /\ UNCHANGED localStorage
            /\ Return(p, Failure("Code.end", p))
    /\ UNCHANGED <<now, dbTables, lastRefresh, vret>>

\* the operatorInfo of the calls of this specification
ValidInfo == [name |-> <<"K", "i", "m">>,
              phone |-> <<"0", "1", "0", "-", "1", "2", "3", "4", "-",
                          "5", "6", "7", "8">>]

(* Failing storage: one caller starts operations, logs in, ends operations  *)
(* and logs out, and any of its writes may fail.                            *)
NextFaults ==
    \/ \E b \in Booths : Ops_startBoothOperation_callInfo(1, b, ValidInfo)
    \/ Ops_startBoothOperation_active(1)
    \/ Ops_startBoothOperation_booth(1)
    \/ Ops_startBoothOperation_insert(1)
    \/ Ops_startBoothOperation_session(1)
    \/ \E c \in Codes : operatorLogin_callInfo(1, c, ValidInfo)
    \/ Code_startBoothOperation_validate(1)
    \/ Code_startBoothOperation_close(1)
    \/ Code_startBoothOperation_insert(1)
    \/ OpsEndNext({1})
    \/ LogoutNext({1})
    \/ Ops_startBoothOperation_insert_fails(1)
    \/ Ops_startBoothOperation_session_fails(1)
    \/ \E f \in WriteFaults : Code_startBoothOperation_close_fails(1, f)
    \/ Code_startBoothOperation_insert_fails(1)
    \/ Ops_endBoothOperation_update_fails(1)
    \/ \E f \in WriteFaults : Ops_endBoothOperation_delete_fails(1, f)
    \/ Code_endBoothOperation_update_fails(1)
    \/ Resume(1)

SpecFaults == Init /\ [][NextFaults]_vars

\* the sessions bound to operation o: rows of operator_sessions and the
\* caller's session in localStorage
SessionsBoundTo(o, sessions, st) ==
    Cardinality({x \in sessions : x.booth_operation_id = o})
    + (IF st.operator_session # <<>> /\ st.operator_session[1].operationId = o
       THEN 1 ELSE 0)

\* the sessions created since `before`: new rows of operator_sessions and a
\* new session of the caller in localStorage
SessionsCreated(before, sessions, st) ==
    Cardinality(sessions \ before.operator_sessions)
    + (IF st.operator_session # <<>>
          /\ st.operator_session # before.localStorage.operator_session
       THEN 1 ELSE 0)

\* C21: when a start call (startBoothOperation of booth-operations.js,
\* operatorLogin) returns failure, booth_operations and operator_sessions
\* and the caller's stored session are as they were when the call was made:
\* no new operation, no new session, no operation changed; when it returns
\* success, exactly one row was added to booth_operations, it is active,
\* exactly one session was created and exactly one session is bound to the
\* new operation.
C21_StartAtomic ==
    [][\A p \in Procs :
          (/\ pc[p] # "done" /\ pc'[p] = "done"
           /\ ret'[p].fn \in {"Ops.start", "operatorLogin"}
           /\ (pc[p] = "idle" \/ call[p].atCall # <<>>))
          => LET before == IF pc[p] = "idle"
                           THEN [booth_operations |-> booth_operations,
                                 operator_sessions |-> operator_sessions,
                                 localStorage |-> localStorage[p]]
                           ELSE call[p].atCall[1]
                 n == Len(before.booth_operations)
             IN  IF ~ret'[p].success
                 THEN /\ booth_operations' = before.booth_operations
                      /\ operator_sessions' = before.operator_sessions
                      /\ localStorage'[p].operator_session
                             = before.localStorage.operator_session
                 ELSE /\ Len(booth_operations') = n + 1
                      /\ booth_operations'[n + 1].is_active
                      /\ SessionsCreated(before, operator_sessions',
                                         localStorage'[p]) = 1
                      /\ SessionsBoundTo(n + 1, operator_sessions',
                                         localStorage'[p]) = 1]_vars

\* C22: a call of End, logout or start in which a storage write failed
\* returns failure.
C22_WriteFailureReported ==
    [][\A p \in Procs :
          (/\ pc[p] # "done" /\ pc'[p] = "done"
           /\ (call[p].writeFailed \/ ret'[p].writeFailed))
          => ~ret'[p].success]_vars

----------------------------------------------------------------------------
(* Closed operations (SpecClose) *)

\* C31: no step sets a closed operation (is_active = false) back to
\* is_active = true, and no step removes a row of booth_operations: every
\* row stays under its id.
C31_ClosedIsTerminal ==
    [][booth_operations' # booth_operations
       => /\ Len(booth_operations') >= Len(booth_operations)
          /\ \A o \in DOMAIN booth_operations :
                 /\ booth_operations'[o].booth_id = booth_operations[o].booth_id
                 /\ booth_operations'[o].started_at = booth_operations[o].started_at
                 /\ ~booth_operations[o].is_active
                        => ~booth_operations'[o].is_active]_vars

\* a closed operation and an operation of the same booth started after that
\* close and closed too
C31_ClosedThroughLaterStarts ==
    \E o1, o2 \in DOMAIN booth_operations :
        /\ o1 < o2
        /\ booth_operations[o1].booth_id = booth_operations[o2].booth_id
        /\ ~booth_operations[o1].is_active
        /\ ~booth_operations[o2].is_active
        /\ booth_operations[o2].started_at > booth_operations[o1].ended_at

----------------------------------------------------------------------------
(* Ending with a session token (SpecFaults) *)

\* C32: endBoothOperation(operationId, token) with a token that is no
\* session bound to operationId returns failure and none of its steps
\* changes booth_operations or operator_sessions; the operation is closed
\* only for a token that is such a session; and when the call returns
\* success, no row of operator_sessions has the token.
C32_EndChecksToken ==
    [][\A p \in Procs :
          (/\ pc[p] \in EndPcs /\ pc'[p] # pc[p]
           /\ call[p].fn = "Ops.end" /\ call[p].sessionToken # NULL)
          => /\ ~call[p].tokenOkAtCall
                => /\ booth_operations' = booth_operations
                   /\ operator_sessions' = operator_sessions
                   /\ pc'[p] = "done" => ~ret'[p].success
             /\ (pc'[p] = "done" /\ ret'[p].success)
                => ~\E x \in operator_sessions' :
                       x.session_token = call[p].sessionToken]_vars

----------------------------------------------------------------------------
(* The stored session over time: one caller logs in, reads and refreshes    *)
(* its session while the clock runs past the session's lifetime.            *)
NextLocal ==
    \/ TickTo(TickSteps, MaxTime)
    \/ LoginNext({1})
    \/ LocalSessionNext({1})
    \/ Resume(1)

SpecLocal == Init /\ [][NextLocal]_vars

LocalSessionFns == {"getOperatorSession", "refreshSession"}

\* C33: getOperatorSession and refreshSession called with no stored session
\* or with a stored session past its expiry return null / false and leave no
\* stored session (the expiry is not extended, no session is written); and
\* a stored session appears where there was none only by a successful login.
C33_ExpiredSessionStaysGone ==
    [][\A p \in Procs :
          /\ (/\ pc[p] = "idle" /\ pc'[p] = "done"
              /\ ret'[p].fn \in LocalSessionFns
              /\ \/ localStorage[p].operator_session = <<>>
                 \/ localStorage[p].operator_session[1].expiresAt < now)
             => /\ ~ret'[p].success
                /\ localStorage'[p].operator_session = <<>>
          /\ (/\ localStorage[p].operator_session = <<>>
              /\ localStorage'[p].operator_session # <<>>)
             => (ret'[p].fn = "operatorLogin" /\ ret'[p].success)]_vars

\* a session that was refreshed, ran past its new expiry, and a refresh that
\* then returned false
C33_RefreshAfterExpiry ==
    /\ pc[1] = "done" /\ ret[1].fn = "refreshSession" /\ ~ret[1].success
    /\ lastRefresh[1] # <<>> /\ lastRefresh[1][1].new < now
    /\ localStorage[1].operator_session = <<>>

----------------------------------------------------------------------------
(* The cleanup beside resolves and validations: one caller starts            *)
(* operations of booth 2 and resolves sessions, a client validates codes,    *)
(* the scheduler runs the cleanup, and the clock runs past the sessions'     *)
(* lifetime and past the 7 days the cleanup keeps attempts for.              *)

\* the instants at which something happens: the start, a session lifetime
\* later, and a session lifetime after the 7 days of the cleanup
SweepInstants ==
    {0, OPS_SESSION_HOURS * HourMinutes,
     CLEANUP_ATTEMPT_DAYS * DayMinutes + OPS_SESSION_HOURS * HourMinutes}

\* the clock moves to a later instant, between calls
SweepTick ==
    /\ vret.fn = "none" /\ pc[1] = "idle"
    /\ \E t \in SweepInstants : t > now /\ now' = t
    /\ UNCHANGED <<dbTables, localStorage, pc, call, loc, ret, lastRefresh, vret>>

\* the page validates a code no booth holds, between its calls
SweepValidate ==
    /\ pc[1] = "idle"
    /\ validate_booth_code("XYZ999", Client)

NextSweep ==
    \/ SweepTick
    \/ OpsStartNext({1}, {2})
    \/ OpsResolveNext({1})
    \/ SweepValidate
    \/ validate_return
    \/ cleanup_expired_sessions
    \/ Resume(1)

SpecSweep == Init /\ [][NextSweep]_vars

\* getCurrentOperation(token) at time t on a table of sessions: accepted when
\* one row has the token and the row is not expired
ResolveAccepts(sessions, token, t) ==
    LET rows == {x \in sessions : x.session_token = token}
    IN  /\ Cardinality(rows) = 1
        /\ \A x \in rows : ~Ops_sessionExpired(x.expires_at, t)

\* the times from now on that the clock can show
LaterTimes == {t \in SweepInstants : t >= now}

\* a step of the cleanup that deletes something
CleanupStep ==
    /\ pc' = pc /\ vret' = vret /\ now' = now
    /\ (operator_sessions' # operator_sessions \/ code_attempts' # code_attempts)

\* C34: a run of cleanup_expired_sessions deletes only sessions whose
\* expires_at is earlier than now and attempts older than 7 days, and for
\* every token, every address and every time from now on, a resolve of the
\* token is accepted after the run exactly when it would have been without
\* it, and check_ip_attempts gives the address the same count.
C34_CleanupKeepsOutcomes ==
    [][CleanupStep
       => /\ \A x \in operator_sessions \ operator_sessions' : x.expires_at < now
          /\ operator_sessions' \subseteq operator_sessions
          /\ \A i \in DOMAIN code_attempts :
                 code_attempts[i].attempted_at
                     >= now - CLEANUP_ATTEMPT_DAYS * DayMinutes
                 => \E j \in DOMAIN code_attempts' :
                        code_attempts'[j] = code_attempts[i]
          /\ \A t \in LaterTimes :
                 /\ \A token \in DOMAIN booth_operations :
                        ResolveAccepts(operator_sessions', token, t)
                            = ResolveAccepts(operator_sessions, token, t)
                 /\ \A a \in Addresses :
                        check_ip_attempts(a, t)' = check_ip_attempts(a, t)]_vars

\* the cleanup has deleted the session the caller still holds the token of
\* and the earlier session too, and the client's address is blocked
C34_CleanedWhileBlocked ==
    /\ pc[1] = "idle"
    /\ localStorage[1].session_token # NULL
    /\ SessionsByToken(localStorage[1].session_token) = {}
    /\ Len(booth_operations) = 2 /\ operator_sessions = {}
    /\ check_ip_attempts(Client, now) >= MAX_IP_ATTEMPTS

----------------------------------------------------------------------------
(* Addresses (SpecRateLimit) *)

\* C35: a validation from one address changes, for no other address, the
\* count check_ip_attempts gives it or the result validate_booth_code would
\* give it for any code.
C35_RateLimitPerAddress ==
    [][(code_attempts' # code_attempts /\ vret'.fn = "validate_booth_code")
       => \A b \in Addresses \ {vret'.ip} :
              /\ check_ip_attempts(b, now)' = check_ip_attempts(b, now)
              /\ \A c \in {"ABC123", "XYZ999"} :
                     LET before == validate_booth_code_body(c, b, now)
                         after == validate_booth_code_body(c, b, now)'
                     IN  /\ after.is_valid = before.is_valid
                         /\ after.message = before.message
                         /\ after.booth_id = before.booth_id]_vars

\* one address is blocked and the other address has just validated a code
C35_OtherAddressAdmitted ==
    /\ vret.fn = "validate_booth_code" /\ vret.is_valid
    /\ \E a \in Addresses \ {vret.ip} :
           check_ip_attempts(a, now) >= MAX_IP_ATTEMPTS

----------------------------------------------------------------------------
(* The block over time: a client validates codes during the first hour,     *)
(* its results are taken, and the clock runs on for the hour of the window. *)

CooldownLimit == MaxValidateTime + ATTEMPT_WINDOW_HOURS * HourMinutes

CooldownTick == vret.fn = "none" /\ TickTo(AttemptTickSteps, CooldownLimit)

CooldownValidate ==
    /\ now <= MaxValidateTime
    /\ \E c \in {"ABC123", "XYZ999"} : validate_booth_code(c, Client)

NextCooldown ==
    \/ CooldownTick
    \/ CooldownValidate
    \/ validate_return

SpecCooldown ==
    /\ InitValidate
    /\ [][NextCooldown]_vars
    /\ WF_vars(CooldownTick)
    /\ WF_vars(validate_return)

\* C36: a validation rejected as rate-limited appends a row with success =
\* false at the time of the call, which raises the address's count by one;
\* and a blocked address is unblocked later, when the clock has run on and
\* fewer than 5 of its failed attempts lie within the 60 minutes before.
C36_BlockEndsAndExtends ==
    /\ [][(vret'.fn = "validate_booth_code" /\ vret.fn = "none"
           /\ vret'.reason = "rate_limited")
          => /\ Len(code_attempts') = Len(code_attempts) + 1
             /\ LET row == code_attempts'[Len(code_attempts')]
                IN  /\ row.ip_address = vret'.ip
                    /\ row.success = FALSE
                    /\ row.attempted_at = now
             /\ \A a \in Addresses :
                    vret'.ip = a
                    => check_ip_attempts(a, now)' = check_ip_attempts(a, now) + 1]_vars
    /\ \A a \in Addresses :
           (check_ip_attempts(a, now) >= MAX_IP_ATTEMPTS)
               ~> (check_ip_attempts(a, now) < MAX_IP_ATTEMPTS)

\* the address was blocked, attempted while blocked, and is unblocked now
C36_UnblockedAfterBlockedAttempt ==
    /\ \E i \in DOMAIN code_attempts :
           /\ code_attempts[i].ip_address = Client
           /\ code_attempts[i].error_message = "rate_limited"
    /\ check_ip_attempts(Client, now) < MAX_IP_ATTEMPTS
    /\ FailedWithinWindow(Client, now, Len(code_attempts)) < 5

----------------------------------------------------------------------------
(* Logging out (SpecFaults) *)

\* C37: when operatorLogout returns, whether the End of the session's
\* operation succeeded or failed, no operator session is stored:
\* getOperatorSession() gives null.
C37_LogoutClearsSession ==
    [][\A p \in Procs :
          (pc[p] # "done" /\ pc'[p] = "done" /\ ret'[p].fn = "operatorLogout")
          => /\ localStorage'[p].operator_session = <<>>
             /\ getOperatorSession(localStorage[p], now)' = <<>>]_vars

\* a logout has returned after its End failed: the operation is still
\* active and the session is gone
C37_LoggedOutAfterFailedEnd ==
    /\ pc[1] = "done" /\ ret[1].fn = "operatorLogout" /\ ret[1].writeFailed
    /\ booth_operations[ret[1].operationId].is_active
    /\ localStorage[1].operator_session = <<>>

----------------------------------------------------------------------------
(* access-control.js and auth-manager.js: canAccessBooth(boothId).  The     *)
(* item admin_session of localStorage is written by the admin login page;   *)
(* a call is made with the item absent (<<>>) or holding an admin's session. *)

AdminSessions == {<<>>, <<[username |-> "admin", role |-> "admin"]>>}

AccessModules == {"access-control", "auth-manager"}

\* operator-auth.js: session && session.role === 'operator'
isOperator(st, t) ==
    LET session == getOperatorSession(st, t)
    IN  session # <<>> /\ session[1].role = "operator"

\* a check that any operator session gives access to any booth
hasBoothAccess_anyBooth(st, boothId, t) == getOperatorSession(st, t) # <<>>

\* operator-auth.js: session.boothId === boothId
hasBoothAccess(st, boothId, t) ==
    LET session == getOperatorSession(st, t)
    IN  session # <<>> /\ session[1].boothId = boothId

\* access-control.js: adminSession.username === 'admin', else isOperator()
AC_getCurrentUserRole(st, admin, t) ==
    IF admin # <<>> /\ admin[1].username = "admin" THEN "admin"
    ELSE IF isOperator(st, t) THEN "operator"
    ELSE "guest"

AC_canAccessBooth(st, admin, boothId, t) ==
    LET role == AC_getCurrentUserRole(st, admin, t)
    IN  IF role = "admin" THEN TRUE
        ELSE IF role = "operator" THEN hasBoothAccess(st, boothId, t)
        ELSE FALSE

\* auth-manager.js: session.role === 'admin', else the operator session's role
AM_getCurrentUserRole(st, admin, t) ==
    IF admin # <<>> /\ admin[1].role = "admin" THEN "admin"
    ELSE LET operatorSession == getOperatorSession(st, t)
         IN  IF operatorSession # <<>> /\ operatorSession[1].role = "operator"
             THEN "operator"
             ELSE "guest"

\* auth-manager.js: getCurrentUser(), its role and boothId
AM_getCurrentUser(st, admin, t) ==
    LET role == AM_getCurrentUserRole(st, admin, t)
    IN  [role |-> role,
         boothId |-> IF role = "operator"
                     THEN getOperatorSession(st, t)[1].boothId
                     ELSE NULL]

AM_canAccessBooth(st, admin, boothId, t) ==
    LET user == AM_getCurrentUser(st, admin, t)
    IN  IF user.role = "admin" THEN TRUE
        ELSE IF user.role = "operator" THEN user.boothId = boothId
        ELSE FALSE

\* a call of canAccessBooth of one of the modules; without an admin session
\* it reads the operator session, which clears an expired one
canAccessBooth_call(p, module, boothId, admin) ==
    /\ pc[p] = "idle"
    /\ LET st == localStorage[p]
           granted == IF module = "access-control"
                      THEN AC_canAccessBooth(st, admin, boothId, now)
                      ELSE AM_canAccessBooth(st, admin, boothId, now)
           role == IF module = "access-control"
                   THEN AC_getCurrentUserRole(st, admin, now)
                   ELSE AM_getCurrentUserRole(st, admin, now)
       IN  /\ localStorage' = [localStorage EXCEPT ![p] =
                   IF role = "admin" THEN st ELSE storageAfterGet(st, now)]
           /\ Return(p, [NoRet EXCEPT !.fn = "canAccessBooth",
                                      !.success = granted, !.boothId = boothId,
                                      !.at = now,
                                      !.access = <<[module |-> module,
                                                    adminSession |-> admin,
                                                    granted |-> granted]>>])
    /\ UNCHANGED <<now, dbTables, lastRefresh, vret>>

(* Access: one caller logs in, refreshes its session and asks for access to *)
(* the booths while the clock runs past the session's lifetime.             *)
NextAccess ==
    \/ TickTo(TickSteps, MaxTime)
    \/ LoginNext({1})
    \/ LocalSessionNext({1})
    \/ \E m \in AccessModules, b \in Booths, a \in AdminSessions :
           canAccessBooth_call(1, m, b, a)
    \/ Resume(1)

SpecAccess == Init /\ [][NextAccess]_vars

\* C38: a call of canAccessBooth(b) made without an admin session, in
\* either module, returns true only if the caller's stored operator session
\* is not past its expiry and its boothId is b; with no stored session or
\* with one past its expiry it returns false for every booth.
C38_AccessScopedToSessionBooth ==
    [][\A p \in Procs :
          (/\ pc[p] = "idle" /\ pc'[p] = "done"
           /\ ret'[p].fn = "canAccessBooth"
           /\ ret'[p].access[1].adminSession = <<>>)
          => LET session == localStorage[p].operator_session
                 unexpired == session # <<>> /\ ~(session[1].expiresAt < now)
             IN  /\ ret'[p].access[1].granted
                        => (unexpired /\ session[1].boothId = ret'[p].boothId)
                 /\ ~unexpired => ~ret'[p].access[1].granted]_vars

\* access-control.js has granted the session's booth at the instant the
\* session expires, without an admin session
C38_GrantedAtExpiryInstant ==
    /\ pc[1] = "done" /\ ret[1].fn = "canAccessBooth"
    /\ ret[1].access[1].module = "access-control"
    /\ ret[1].access[1].adminSession = <<>>
    /\ ret[1].access[1].granted
    /\ localStorage[1].operator_session # <<>>
    /\ localStorage[1].operator_session[1].expiresAt = now

----------------------------------------------------------------------------
(* booth-code.js: regenerateBoothCode(boothId, expiryDays = 30) *)

ExpiryDaysInputs == {7, DEFAULT_EXPIRY_DAYS}

\* an update that clears the expiry and leaves the code
invalidatedBooths_expiryOnly(bs, boothId) ==
    [bs EXCEPT ![boothId].code_expires_at = NULL]

\* update booths set booth_code = null, code_expires_at = null where id = boothId
invalidatedBooths(bs, boothId) ==
    [bs EXCEPT ![boothId].booth_code = <<>>, ![boothId].code_expires_at = NULL]

\* the call, up to its first request
regenerateBoothCode_call(p, boothId, expiryDays) ==
    /\ pc[p] = "idle"
    /\ pc' = [pc EXCEPT ![p] = "r_clear"]
    /\ call' = [call EXCEPT ![p] = [NoCall EXCEPT
                    !.fn = "regenerateBoothCode", !.boothId = boothId,
                    !.expiryDays = expiryDays]]
    /\ UNCHANGED <<now, dbTables, localStorage, loc, ret, lastRefresh, vret>>

\* the update that clears the old code; its result is not looked at, and
\* assignCodeToBooth(boothId, expiryDays) follows, whose result is returned.
\* atCall keeps the code the booth had and whether the update was made.
regenerateBoothCode_clear(p, fault) ==
    /\ pc[p] = "r_clear"
    /\ IF fault = "throw"
       THEN /\ Return(p, [NoRet EXCEPT !.fn = "regenerateBoothCode",
                                       !.error = "storage",
                                       !.boothId = call[p].boothId,
                                       !.writeFailed = TRUE])
            /\ UNCHANGED booths
       ELSE /\ booths' = IF fault = "none"
                         THEN invalidatedBooths(booths, call[p].boothId)
                         ELSE booths
            /\ pc' = [pc EXCEPT ![p] = "u_check"]
            /\ call' = [call EXCEPT ![p] = [NoCall EXCEPT
                           !.fn = "assignCodeToBooth",
                           !.boothId = call[p].boothId,
                           !.maxAttempts = DEFAULT_MAX_ATTEMPTS,
                           !.expiryDays = call[p].expiryDays,
                           !.atCall = <<[booth_code |->
                                             booths[call[p].boothId].booth_code,
                                         invalidated |-> fault = "none"]>>,
                           !.writeFailed = (fault = "error")]]
            /\ UNCHANGED <<loc, ret>>
    /\ UNCHANGED <<now, booth_operations, operator_sessions, participants,
                   booth_daily_stats, code_attempts, closures, localStorage,
                   lastRefresh, vret>>

\* assignCodeToBooth: the update fails; if (error) throw error
assignCodeToBooth_update_fails(p) ==
    /\ pc[p] = "a_update"
    /\ Return(p, [NoRet EXCEPT !.fn = "assignCodeToBooth", !.error = "storage",
                               !.boothId = call[p].boothId,
                               !.code = loc[p].code, !.checks = loc[p].i,
                               !.writeFailed = TRUE])
    /\ UNCHANGED <<now, dbTables, localStorage, lastRefresh, vret>>

(* Regeneration: one caller assigns and regenerates the codes of the two    *)
(* booths while a day passes; any of its requests may fail.                 *)
NextRegen ==
    \/ pc[1] = "idle" /\ TickTo(CloseTickSteps, MaxTime)
    \/ \E b \in Booths, ms \in DateNowValues, d \in RandomDigits :
           assignCodeToBooth_call(1, b, ms, d)
    \/ \E b \in Booths, days \in ExpiryDaysInputs :
           regenerateBoothCode_call(1, b, days)
    \/ \E f \in Faults : regenerateBoothCode_clear(1, f)
    \/ \E r \in RandomDraws, f \in Faults, ms \in DateNowValues,
          d \in RandomDigits : generateUniqueBoothCode_check(1, r, f, ms, d)
    \/ assignCodeToBooth_update(1)
    \/ assignCodeToBooth_update_fails(1)
    \/ Resume(1)

SpecRegen == InitCodes /\ [][NextRegen]_vars

\* a regeneration whose clearing update was made and whose assignment has
\* not returned yet
RegenInvalidated(p) ==
    /\ pc[p] \in {"u_check", "a_update"}
    /\ call[p].atCall # <<>> /\ call[p].atCall[1].invalidated

\* C39: from the clearing update of regenerateBoothCode until its assignment
\* returns, the booth has no code, so the code it had does not validate;
\* when the call returns success the booth holds the returned code, which is
\* not null, with code_expires_at = now + expiryDays; and when the assignment
\* fails after the clearing update was made, the call returns failure and
\* the booth has no code.
C39_RegenerateInvalidatesFirst ==
    [][\A p \in Procs :
          /\ (pc[p] = "r_clear" /\ pc'[p] = "u_check"
              /\ call'[p].atCall[1].invalidated)
             => booths'[call[p].boothId].booth_code = <<>>
          /\ RegenInvalidated(p)
             => LET b == call[p].boothId
                IN  /\ booths[b].booth_code = <<>>
                    /\ booths[b].booth_code # call[p].atCall[1].booth_code
                           \/ call[p].atCall[1].booth_code = <<>>
                    /\ (pc'[p] = "done" /\ ~ret'[p].success)
                           => booths'[b].booth_code = <<>>
          /\ (/\ pc[p] \in {"u_check", "a_update"} /\ call[p].atCall # <<>>
              /\ pc'[p] = "done" /\ ret'[p].success)
             => LET b == call[p].boothId
                IN  /\ ret'[p].code # <<>>
                    /\ booths'[b].booth_code = ret'[p].code
                    /\ booths'[b].code_expires_at
                           = now + call[p].expiryDays * DayMinutes
                    /\ ret'[p].expires_at = booths'[b].code_expires_at]_vars

\* the assignment of a regeneration of booth 1 has failed on the code booth
\* 2 holds: booth 1, which had a code, has none
C39_FailedAfterInvalidation ==
    /\ pc[1] = "done" /\ ret[1].fn = "assignCodeToBooth" /\ ~ret[1].success
    /\ ret[1].boothId = 1 /\ ret[1].error = "unique_violation"
    /\ booths[1].booth_code = <<>>
    /\ booths[2].booth_code # <<>>

====
